---- MODULE Spec2Model ----
(***************************************************************************)
(* Orchestrator of the persona execution service: the Worker Pool          *)
(* (workerPool.ts), the Dispatcher (dispatcher.ts), the token sources      *)
(* (OAuthManager, createTokenManager) and the Event Processor tick         *)
(* (eventBusTick), together with the worker client's replies               *)
(* (worker/connection.ts, worker/index.ts).                                *)
(*                                                                         *)
(* The orchestrator is a single-threaded event loop: every action below is *)
(* one callback run to completion (a WebSocket message, a close event, a   *)
(* timer, an HTTP request, or the continuation of an await).               *)
(***************************************************************************)
EXTENDS Integers, Sequences, FiniteSets, TLC

\* ---- bounds of the model
MaxReq == 2        \* executions submitted in one behaviour
MaxConn == 2       \* transports accepted in one behaviour
MaxReap == 1       \* retention timers pending for one execution
MaxEvents == 2     \* events published in one behaviour
MaxSubs == 2       \* subscriptions passed to one call of matchEvent
MaxStr == 2        \* characters of a string passed to sourceFilterMatches
MaxTriggers == 2   \* rows of persona_triggers
DayLen == 4        \* seconds in a day, on the model's time scale
HourLen == 3       \* seconds in an hour, on the model's time scale
MaxNow == 9        \* last instant the clock reaches
MaxTicks == 5      \* heartbeat intervals the clock runs through
MaxCalls == 2      \* concurrent calls of getValidAccessToken
MaxIssued == 3     \* token responses of the authorization server
ClockStep == 300000   \* ms between two readings of the clock by OAuthManager
MaxClock == 1800000   \* ms the OAuthManager is followed for
MaxCreds == 2      \* credentials bound to one persona
MaxChunks == 2     \* stdout / stderr frames written for one execution

\* ---- identifiers
WorkerIds == {"w1", "w2"}
NoWorker == "none"
ExecIds == 1 .. MaxReq
NoExec == 0
Conns == 1 .. MaxConn
NoConn == 0

EvIds == 1 .. MaxEvents
NoPersona == "none"

CLOSE_GOING_AWAY == 1001
CLOSE_POLICY == 1008
HEARTBEAT_INTERVAL_MS == 30000
HEARTBEAT_TIMEOUT_MS == 90000
HELLO_TIMEOUT_MS == 10000
HTTP_OK == 200
HTTP_NOT_FOUND == 404

VARIABLES
  workers,    \* WorkerPool.workers: the Map, as a sequence in insertion order
  timers,     \* heartbeat intervals that are running (named by the transport they were created for)
  connState,  \* ws.readyState of every transport: "unused", "open", "closing", "closed";
              \* "rejected" / "refused": closing / closed with no listener attached
  connWid,    \* handleConnection's closure variable workerId
  chan,       \* frames the worker on a transport has sent or will send, not yet received
  queue,      \* Dispatcher.queue (execution ids, head first)
  active,     \* Dispatcher.active
  reap,       \* pending setTimeout(() => active.delete(id)) per execution
  dbExec,     \* persona_executions.status per execution ("none": no row)
  dbCols,     \* persona_executions: the other columns the dispatcher writes
  pending,    \* dispatchToWorker calls suspended at await getValidAccessToken()
  oauth,      \* OAuthManager.tokens: "none", "fresh", "expiring"
  stored,     \* tokenManager holds a token
  nextId,     \* next execution id minted by nanoid()
  execInfo,   \* per execution: the persona it runs and who submitted it
  events,     \* persona_events rows: kind and status ("none": not published)
  tick,       \* position of the running eventBusTick
  out,        \* frames, closes, bus messages and log lines produced by the last step
  triggers,   \* persona_triggers rows
  now,        \* the wall clock
  call,       \* a call of a pure function: its arguments and its result
  connTok,    \* the token in the query string of every transport's upgrade request
  clock,      \* Date.now(), in ms
  lastHeartbeat, \* info.lastHeartbeat of the session created on each transport
  hbDue,      \* when the heartbeat interval created on each transport fires next
  helloDue,   \* when the hello timeout of each transport fires (Undefined: cleared or fired)
  stopped,    \* the worker behind each transport has stopped sending
  output,     \* active[id].output: the chunks kept in memory, per execution
  outputData, \* persona_executions.output_data per execution ('' for NULL)
  written,    \* stdout / stderr frames the workers have written, per execution
  tokens,     \* OAuthManager.tokens (NoTokens: null)
  calls,      \* calls of getValidAccessToken: where each is and what it returned
  issued      \* token responses the authorization server has given

poolVars == <<workers, timers, connState, chan>>
dispVars == <<queue, active, reap, dbExec, dbCols, pending, output, outputData>>
tokenVars == <<oauth, stored>>
eventVars == <<events, tick>>
timeVars == <<clock, lastHeartbeat, hbDue, helloDue, stopped>>
oauthVars == <<tokens, calls, issued>>
sideVars == <<triggers, now, call, connTok, timeVars, written, oauthVars>>
vars == <<workers, timers, connState, connWid, chan, queue, active, reap,
          dbExec, dbCols, pending, oauth, stored, nextId, execInfo, events, tick, out,
          triggers, now, call, connTok, clock, lastHeartbeat, hbDue, helloDue, stopped,
          output, outputData, written, tokens, calls, issued>>

\* ---- records
Entry(w, c, st, cur) == [id |-> w, ws |-> c, status |-> st, cur |-> cur]
Frame(t, w, e) == [type |-> t, wid |-> w, id |-> e]
Out(k, c, e, code, st) == [k |-> k, c |-> c, id |-> e, code |-> code, st |-> st]
\* an optional field that is undefined / a column that is NULL
Undefined == -1
NoSession == ""
NoActive ==
  [workerId |-> NoWorker, status |-> "none", exitCode |-> Undefined,
   durationMs |-> Undefined, sessionId |-> NoSession, totalCostUsd |-> Undefined]
\* the entry dispatchToWorker creates
Running(w) == [NoActive EXCEPT !.workerId = w, !.status = "running"]
\* the row createExecution inserts, but for its status
NewRow == [errorMessage |-> "", durationMs |-> Undefined, claudeSessionId |-> NoSession, costUsd |-> 0]
\* the complete frame a worker sends for an execution that ended with status st
ExecComplete(e, st) ==
  [type |-> "complete", id |-> e, status |-> st,
   exitCode |-> IF st = "completed" THEN 0 ELSE 1,
   durationMs |-> IF st = "completed" THEN 123 ELSE IF st = "failed" THEN 45 ELSE 6,
   sessionId |-> IF st = "failed" THEN NoSession ELSE "sess",
   totalCostUsd |-> IF st = "completed" THEN 2 ELSE Undefined]
Pend(w, e, kind) == [w |-> w, id |-> e, kind |-> kind]

\* The mutable state the handlers share, passed through nested calls.
Cur ==
  [workers |-> workers, timers |-> timers, connState |-> connState, chan |-> chan,
   queue |-> queue, active |-> active, reap |-> reap, dbExec |-> dbExec, dbCols |-> dbCols,
   pending |-> pending, oauth |-> oauth, stored |-> stored, output |-> output,
   outputData |-> outputData, out |-> <<>>]

Commit(s) ==
  /\ workers' = s.workers
  /\ timers' = s.timers
  /\ connState' = s.connState
  /\ chan' = s.chan
  /\ queue' = s.queue
  /\ active' = s.active
  /\ reap' = s.reap
  /\ dbExec' = s.dbExec
  /\ dbCols' = s.dbCols
  /\ pending' = s.pending
  /\ oauth' = s.oauth
  /\ stored' = s.stored
  /\ output' = s.output
  /\ outputData' = s.outputData
  /\ out' = s.out

Emit(s, o) == [s EXCEPT !.out = Append(@, o)]

\* ---- the workers Map
HasWorker(ws, w) == \E i \in 1 .. Len(ws) : ws[i].id = w
IndexOf(ws, w) == CHOOSE i \in 1 .. Len(ws) : ws[i].id = w
GetWorker(ws, w) == ws[IndexOf(ws, w)]
MapDelete(ws, w) == SelectSeq(ws, LAMBDA e : e.id # w)
MapUpdate(ws, w, e) == [i \in 1 .. Len(ws) |-> IF ws[i].id = w THEN e ELSE ws[i]]

\* ---- worker client: what the worker sends back for a frame it receives
WorkerReply(msg) ==
  IF msg.type = "ack" THEN <<Frame("ready", NoWorker, NoExec)>>
  ELSE IF msg.type = "assign"
       THEN <<Frame("complete", NoWorker, msg.id), Frame("ready", NoWorker, NoExec)>>
       ELSE <<>>

\* ws.close(code) called by the orchestrator
WsClose(s, c, code) ==
  IF s.connState[c] = "open"
  THEN Emit([s EXCEPT !.connState[c] = "closing"], Out("close", c, NoExec, code, ""))
  ELSE s

\* WorkerPool.send: [s, ok]
send(s, w, msg) ==
  IF ~HasWorker(s.workers, w) \/ s.connState[GetWorker(s.workers, w).ws] # "open"
  THEN [s |-> s, ok |-> FALSE]
  ELSE LET c == GetWorker(s.workers, w).ws
       IN [s |-> Emit([s EXCEPT !.chan[c] = @ \o WorkerReply(msg)],
                      Out(msg.type, c, msg.id, 0, "")),
           ok |-> TRUE]

\* assign that records the execution id only once the frame went out
assign_late_id(s, w, e) ==
  IF ~HasWorker(s.workers, w) \/ GetWorker(s.workers, w).status # "idle"
  THEN [s |-> s, ok |-> FALSE]
  ELSE LET old == GetWorker(s.workers, w)
           s1 == [s EXCEPT !.workers = MapUpdate(@, w, Entry(w, old.ws, "executing", NoExec))]
           r == send(s1, w, Frame("assign", w, e))
       IN IF r.ok
          THEN [s |-> [r.s EXCEPT !.workers = MapUpdate(@, w, Entry(w, old.ws, "executing", e))],
                ok |-> TRUE]
          ELSE r

\* WorkerPool.assign: [s, ok]
assign(s, w, e) ==
  IF ~HasWorker(s.workers, w) \/ GetWorker(s.workers, w).status # "idle"
  THEN [s |-> s, ok |-> FALSE]
  ELSE LET old == GetWorker(s.workers, w)
           s1 == [s EXCEPT !.workers = MapUpdate(@, w, Entry(w, old.ws, "executing", e))]
       IN send(s1, w, Frame("assign", w, e))

\* WorkerPool.getIdleWorker: first idle entry in iteration order
getIdleWorker(ws) ==
  IF \E i \in 1 .. Len(ws) : ws[i].status = "idle"
  THEN ws[CHOOSE i \in 1 .. Len(ws) :
            /\ ws[i].status = "idle"
            /\ \A j \in 1 .. i - 1 : ws[j].status # "idle"].id
  ELSE NoWorker

\* db.updateExecution(id, {status}): an UPDATE, so a missing row stays missing
updateExecution(db, e, st) == IF db[e] = "none" THEN db ELSE [db EXCEPT ![e] = st]
\* the other columns named in the same call
updateColumns(s, e, cols) == IF s.dbExec[e] = "none" THEN s ELSE [s EXCEPT !.dbCols[e] = cols]

\* a listener that sets no timeout
ScheduleReap_never(s, e) == s
\* setTimeout(() => this.active.delete(id), 30_000)
ScheduleReap(s, e) == [s EXCEPT !.reap[e] = IF @ < MaxReap THEN @ + 1 ELSE @]

\* dispatchToWorker that puts a request whose assign failed at the back of the queue
DispatchWithToken_requeue_back(s, w, e, tok) ==
  LET s0 == IF tok THEN [s EXCEPT !.stored = TRUE] ELSE s
  IN IF ~s0.stored
     THEN Emit([s0 EXCEPT !.queue = <<e>> \o @], Out("no_token", NoConn, e, 0, ""))
     ELSE LET s1 == [s0 EXCEPT !.active[e] = Running(w),
                               !.output[e] = <<>>,
                               !.dbExec = updateExecution(@, e, "running")]
              r == assign(s1, w, e)
          IN IF r.ok
             THEN r.s
             ELSE Emit([r.s EXCEPT !.active[e] = NoActive,
                                   !.dbExec = updateExecution(@, e, "queued"),
                                   !.queue = Append(@, e)],
                       Out("assign_failed", NoConn, e, 0, ""))

\* Dispatcher.dispatchToWorker after the token has been looked up
\* (tok: the OAuth source yielded a token)
DispatchWithToken(s, w, e, tok) ==
  LET s0 == IF tok THEN [s EXCEPT !.stored = TRUE] ELSE s
  IN IF ~s0.stored
     THEN Emit([s0 EXCEPT !.queue = <<e>> \o @], Out("no_token", NoConn, e, 0, ""))
     ELSE LET s1 == [s0 EXCEPT !.active[e] = Running(w),
                               !.output[e] = <<>>,
                               !.dbExec = updateExecution(@, e, "running")]
              r == assign(s1, w, e)
          IN IF r.ok
             THEN r.s
             ELSE Emit([r.s EXCEPT !.active[e] = NoActive,
                                   !.dbExec = updateExecution(@, e, "queued"),
                                   !.queue = <<e>> \o @],
                       Out("assign_failed", NoConn, e, 0, ""))

\* Dispatcher.dispatchToWorker up to its first await
dispatchToWorker(s, w, e) ==
  IF s.oauth # "none"
  THEN [s EXCEPT !.pending = Append(@, Pend(w, e, IF s.oauth = "fresh" THEN "micro" ELSE "refresh"))]
  ELSE DispatchWithToken(s, w, e, FALSE)

\* Dispatcher.processQueue
processQueue(s) ==
  IF Len(s.queue) = 0 THEN s
  ELSE LET w == getIdleWorker(s.workers)
       IN IF w = NoWorker THEN s
          ELSE dispatchToWorker([s EXCEPT !.queue = Tail(@)], w, Head(s.queue))

\* db.appendOutput: COALESCE(output_data, '') || chunk, for the row if there is one
appendOutput(s, e, chunk) ==
  IF s.dbExec[e] = "none" THEN s ELSE [s EXCEPT !.outputData[e] = @ \o chunk]

\* what is pushed for a frame of type t: the chunk, prefixed for stderr
STDERR_PREFIX == "[STDERR] "
OutputLine_plain(t, chunk) == chunk
OutputLine(t, chunk) == IF t = "stderr" THEN STDERR_PREFIX \o chunk ELSE chunk

\* Dispatcher's 'stdout' and 'stderr' listeners
OnOutput(s, e, t, chunk) ==
  LET s1 == IF s.active[e].status # "none"
            THEN [s EXCEPT !.output[e] = Append(@, OutputLine(t, chunk))]
            ELSE s
      s2 == appendOutput(s1, e, OutputLine(t, chunk) \o "\n")
  IN IF t = "stdout"
     THEN Emit(s2, Out("output", NoConn, e, 0, chunk))
     ELSE Emit(s2, Out("stderr_log", NoConn, e, 0, chunk))

\* Dispatcher's 'complete' listener
OnComplete(s, e, st) ==
  LET msg == ExecComplete(e, st)
      s1 == Emit(s, Out("lifecycle", NoConn, e, msg.durationMs, msg.status))
      s2 == IF s1.active[e].status # "none"
            THEN ScheduleReap([s1 EXCEPT !.active[e] =
                   [workerId |-> @.workerId, status |-> msg.status, exitCode |-> msg.exitCode,
                    durationMs |-> msg.durationMs, sessionId |-> msg.sessionId,
                    totalCostUsd |-> msg.totalCostUsd]], e)
            ELSE s1
      s3 == updateColumns(s2, e,
              [s2.dbCols[e] EXCEPT !.durationMs = msg.durationMs,
                                   !.claudeSessionId = msg.sessionId,
                                   !.costUsd = IF msg.totalCostUsd = Undefined THEN 0 ELSE msg.totalCostUsd])
      s4 == [s3 EXCEPT !.dbExec = updateExecution(@, e,
                 IF st = "completed" THEN "completed"
                 ELSE IF st = "cancelled" THEN "cancelled" ELSE "failed")]
  IN processQueue(s4)

\* Dispatcher's 'worker-disconnected' listener
OnWorkerDisconnected(s, e) ==
  IF e = NoExec THEN s
  ELSE LET s1 == IF s.active[e].status # "none"
                 THEN ScheduleReap([s EXCEPT !.active[e].status = "failed"], e)
                 ELSE s
           s2 == updateColumns(s1, e, [s1.dbCols[e] EXCEPT !.errorMessage = "Worker disconnected"])
           s3 == [s2 EXCEPT !.dbExec = updateExecution(@, e, "failed")]
       IN Emit(s3, Out("lifecycle", NoConn, e, 0, "failed"))

\* registerWorker that replaces the Map entry but leaves the previous transport open
registerWorker_no_close(s, w, c) ==
  LET s1 == IF HasWorker(s.workers, w)
            THEN LET old == GetWorker(s.workers, w)
                     a == [s EXCEPT !.timers = @ \ {old.ws}]
                 IN [a EXCEPT !.workers = MapDelete(@, w)]
            ELSE s
      s2 == [s1 EXCEPT !.timers = @ \cup {c},
                       !.workers = Append(@, Entry(w, c, "idle", NoExec))]
      s3 == send(s2, w, Frame("ack", w, NoExec)).s
  IN processQueue(s3)

\* WorkerPool.registerWorker
registerWorker(s, w, c) ==
  LET s1 == IF HasWorker(s.workers, w)
            THEN LET old == GetWorker(s.workers, w)
                     a == [s EXCEPT !.timers = @ \ {old.ws}]
                     b == WsClose(a, old.ws, CLOSE_GOING_AWAY)
                 IN [b EXCEPT !.workers = MapDelete(@, w)]
            ELSE s
      s2 == [s1 EXCEPT !.timers = @ \cup {c},
                       !.workers = Append(@, Entry(w, c, "idle", NoExec))]
      s3 == send(s2, w, Frame("ack", w, NoExec)).s
  IN processQueue(s3)

\* WorkerPool.unregisterWorker
unregisterWorker(s, w) ==
  IF ~HasWorker(s.workers, w) THEN s
  ELSE LET entry == GetWorker(s.workers, w)
           s1 == [s EXCEPT !.timers = @ \ {entry.ws},
                           !.workers = MapDelete(@, w)]
       IN OnWorkerDisconnected(s1, entry.cur)

\* WorkerPool.handleWorkerMessage
handleWorkerMessage(s, w, msg, st) ==
  IF ~HasWorker(s.workers, w) THEN s
  ELSE LET entry == GetWorker(s.workers, w)
           idle == [s EXCEPT !.workers = MapUpdate(@, w, Entry(w, entry.ws, "idle", NoExec))]
       IN CASE msg.type = "ready" -> processQueue(idle)
            [] msg.type = "complete" -> OnComplete(idle, msg.id, st)
            [] OTHER -> s

\* Dispatcher.submit
submit(s, e) ==
  LET s1 == [s EXCEPT !.dbExec[e] = IF @ = "none" THEN "queued" ELSE @,
                      !.dbCols[e] = IF s.dbExec[e] = "none" THEN NewRow ELSE @,
                      !.queue = Append(@, e)]
  IN processQueue(s1)

\* cancelExecution that records the cancellation at once instead of waiting
\* for the worker's complete frame
cancelExecution_eager(s, e) ==
  IF s.active[e].status # "running" THEN [s |-> s, ok |-> FALSE]
  ELSE LET r == send(s, s.active[e].workerId, Frame("cancel", s.active[e].workerId, e))
       IN [s |-> [r.s EXCEPT !.active[e].status = "cancelled"], ok |-> r.ok]

\* Dispatcher.cancelExecution: [s, ok]
cancelExecution(s, e) ==
  IF s.active[e].status # "running" THEN [s |-> s, ok |-> FALSE]
  ELSE send(s, s.active[e].workerId, Frame("cancel", s.active[e].workerId, e))

\* ---- event store and subscriptions (rows of the database the tick reads)
Personas == {"p1", "p2"}
maxConcurrent(p) == IF p = "p1" THEN 1 ELSE 2

\* Strings are sequences of characters. Null is the value null / undefined
\* of a nullable string; '' is <<>>.
Null == <<"null">>
\* !s for a nullable string
Falsy(s) == s = Null \/ s = <<>>

\* config.workerToken, and the tokens a query string can carry (Null: no
\* token parameter)
WORKER_TOKEN == <<"s", "e", "c">>
Tokens == {Null, <<>>, <<"s">>, <<"s", "e", "c", "x">>, WORKER_TOKEN}

Sub(i, p, t, f, en) == [id |-> i, personaId |-> p, eventType |-> t, sourceFilter |-> f, enabled |-> en]
Subscriptions ==
  << Sub(1, "p1", "push", Null, TRUE),
     Sub(2, "p3", "push", <<"a", "*">>, TRUE),
     Sub(3, "p2", "mr", Null, TRUE),
     Sub(4, "p1", "mr", Null, FALSE) >>

Event(t, st, src, target) ==
  [eventType |-> t, sourceType |-> st, sourceId |-> src, targetPersonaId |-> target]
EventKinds ==
  { Event("push", "webhook", <<"a", "b">>, NoPersona),
    Event("push", "webhook", <<"b">>, "p1"),
    Event("mr", "webhook", Null, NoPersona),
    Event("tag", "webhook", <<"a">>, NoPersona) }
\* error_message of a row that has none (SQL NULL)
NoMessage == "null"
ALL_FAILED == "All subscription matches failed"
NoEvent == [kind |-> Event("", "", Null, NoPersona), status |-> "none", errorMessage |-> NoMessage]

\* sourceFilterMatches
sourceFilterMatches(filter, sourceId) ==
  IF Falsy(sourceId) THEN FALSE
  ELSE IF Len(filter) > 0 /\ filter[Len(filter)] = "*"
       THEN LET prefix == SubSeq(filter, 1, Len(filter) - 1)
            IN /\ Len(sourceId) >= Len(prefix)
               /\ SubSeq(sourceId, 1, Len(prefix)) = prefix
       ELSE sourceId = filter

\* the EventMatch built for a subscription that passed the filter
EventMatch(event, sub) ==
  [eventType |-> event.eventType, subscriptionId |-> sub.id, personaId |-> sub.personaId,
   sourceId |-> event.sourceId]

\* the subscriptions that pass matchEvent's filter, in enumeration order
Matching(event, subs) ==
  SelectSeq(subs, LAMBDA sub :
    /\ sub.enabled
    /\ sub.eventType = event.eventType
    /\ ~(event.targetPersonaId \notin {NoPersona, ""} /\ event.targetPersonaId # sub.personaId)
    /\ ~(~Falsy(sub.sourceFilter) /\ ~sourceFilterMatches(sub.sourceFilter, event.sourceId)))

\* matchEvent that ignores the event's target persona
matchEvent_any_target(event, subs) ==
  LET m == SelectSeq(subs, LAMBDA sub :
             /\ sub.enabled
             /\ sub.eventType = event.eventType
             /\ ~(~Falsy(sub.sourceFilter) /\ ~sourceFilterMatches(sub.sourceFilter, event.sourceId)))
  IN [k \in 1 .. Len(m) |-> EventMatch(event, m[k])]

\* matchEvent
matchEvent(event, subs) ==
  LET m == Matching(event, subs)
  IN [k \in 1 .. Len(m) |-> EventMatch(event, m[k])]

\* db.getSubscriptionsByEventType
getSubscriptionsByEventType(t) == SelectSeq(Subscriptions, LAMBDA sub : sub.eventType = t)

\* db.countRunningExecutions
countRunningExecutions(db, info, p) ==
  Cardinality({e \in ExecIds : info[e].persona = p /\ db[e] = "running"})

\* db.getPendingEvents(database, 50): pending rows by created_at, at most TICK_LIMIT
TICK_LIMIT == 50
RECURSIVE PendingFrom(_, _)
PendingFrom(ev, i) ==
  IF i > MaxEvents THEN <<>>
  ELSE (IF ev[i].status = "pending" THEN <<i>> ELSE <<>>) \o PendingFrom(ev, i + 1)
\* a query that also picks up the events that failed, to retry them
getPendingEvents_retry(ev) ==
  SelectSeq([i \in 1 .. MaxEvents |-> i], LAMBDA i : ev[i].status \in {"pending", "failed"})
\* a query that also returns the events already delivered
getPendingEvents_redeliver(ev) ==
  SelectSeq([i \in 1 .. MaxEvents |-> i], LAMBDA i : ev[i].status \in {"pending", "delivered"})
getPendingEvents(ev) ==
  LET all == PendingFrom(ev, 1)
  IN IF Len(all) > TICK_LIMIT THEN SubSeq(all, 1, TICK_LIMIT) ELSE all

\* db.updateEventStatus: an unconditional UPDATE of the row; a call without
\* errorMessage passes NoMessage (errorMessage ?? null)
updateEventStatus(ev, i, st, msg) ==
  [ev EXCEPT ![i].status = st, ![i].errorMessage = msg]

IdleTick == [pc |-> "idle", evs |-> <<>>, matches |-> <<>>, delivered |-> 0, failed |-> 0]
NoInfo == [persona |-> NoPersona, src |-> "none", eventId |-> 0, subscriptionId |-> 0]

\* no trigger rows; no call of a pure function under way
NoTriggers == <<>>
NoCall == [fn |-> "none"]

\* ---- OAuthManager: the stored tuple and getValidAccessToken

TEN_MINUTES == 600000
\* expires_in (seconds) of the token responses
ExpiresIn == {600, 1200}
CallIds == 1 .. MaxCalls

\* this.tokens = null
NoTokens == [accessToken |-> Null, refreshToken |-> Null, expiresAt |-> 0, scopes |-> Null]
\* the n-th token response of the authorization server
Response(ok, n, exp, scope) == [ok |-> ok, n |-> n, expires_in |-> exp, scope |-> scope]
NoResponse == Response(FALSE, 0, 0, FALSE)
\* a call of getValidAccessToken: where it is, the refresh token its request
\* carries while the fetch is under way, the response and what it returns
IdleCall == [pc |-> "idle", sent |-> Null, result |-> Null, resp |-> NoResponse]
DEFAULT_SCOPES == <<"default">>

\* the test of getValidAccessToken with >= in place of >
NeedsRefresh_at_margin(t, tk) == t >= tk.expiresAt - TEN_MINUTES
\* getValidAccessToken: Date.now() > this.tokens.expiresAt - TEN_MINUTES
NeedsRefresh(t, tk) == t > tk.expiresAt - TEN_MINUTES

\* the tuple refreshAccessToken stores for a response
Refreshed(tk, resp, t) ==
  [accessToken |-> <<"at", resp.n>>, refreshToken |-> <<"rt", resp.n>>,
   expiresAt |-> t + resp.expires_in * 1000,
   scopes |-> IF resp.scope THEN <<"scope", resp.n>> ELSE tk.scopes]

\* ---- state after construction
InitOrchestrator ==
  /\ workers = <<>>
  /\ timers = {}
  /\ connState = [c \in Conns |-> "unused"]
  /\ connWid = [c \in Conns |-> NoWorker]
  /\ chan = [c \in Conns |-> <<>>]
  /\ queue = <<>>
  /\ active = [e \in ExecIds |-> NoActive]
  /\ reap = [e \in ExecIds |-> 0]
  /\ dbExec = [e \in ExecIds |-> "none"]
  /\ dbCols = [e \in ExecIds |-> NewRow]
  /\ pending = <<>>
  /\ oauth = "none"
  /\ stored = FALSE
  /\ nextId = 1
  /\ execInfo = [e \in ExecIds |-> NoInfo]
  /\ events = [i \in EvIds |-> NoEvent]
  /\ tick = IdleTick
  /\ out = <<>>
  /\ clock = 0
  /\ lastHeartbeat = [c \in Conns |-> 0]
  /\ hbDue = [c \in Conns |-> 0]
  /\ helloDue = [c \in Conns |-> Undefined]
  /\ stopped = [c \in Conns |-> FALSE]
  /\ output = [e \in ExecIds |-> <<>>]
  /\ outputData = [e \in ExecIds |-> ""]
  /\ written = [e \in ExecIds |-> 0]
  /\ tokens = NoTokens
  /\ calls = [k \in CallIds |-> IdleCall]
  /\ issued = 0

\* every worker is configured with the orchestrator's worker token
ConfiguredTokens == [c \in Conns |-> WORKER_TOKEN]

Init ==
  /\ InitOrchestrator
  /\ triggers = NoTriggers
  /\ now = 0
  /\ call = NoCall
  /\ connTok = ConfiguredTokens

\* A continuation of an await on an already resolved promise runs before any
\* other callback; a tick runs to its end before anything else.
MicroPending == \E i \in 1 .. Len(pending) : pending[i].kind = "micro"
Quiescent == tick.pc = "idle" /\ ~MicroPending

\* ---- actions of the Worker Pool

\* the test of the 'connection' handler on url.searchParams.get('token'),
\* for a token that is a non-empty string
TokenValid_nonempty(token) == ~Falsy(token)

\* the test of the 'connection' handler on url.searchParams.get('token')
TokenValid(token) == ~(Falsy(token) \/ token # WORKER_TOKEN)

\* wss 'connection' with a valid token; the worker sends hello on open
Connect(c, w) ==
  /\ Quiescent
  /\ connState[c] = "unused"
  /\ TokenValid(connTok[c])
  /\ \A d \in 1 .. c - 1 : connState[d] # "unused"
  /\ connState' = [connState EXCEPT ![c] = "open"]
  /\ chan' = [chan EXCEPT ![c] = <<Frame("hello", w, NoExec)>>]
  /\ out' = <<>>
  /\ UNCHANGED <<workers, timers, connWid, dispVars, tokenVars, nextId, execInfo, eventVars, sideVars>>

\* frames a client may send on a transport the orchestrator does not answer
UnansweredFrames(w) ==
  { <<Frame("hello", w, NoExec)>>,
    <<Frame("hello", w, NoExec), Frame("ready", NoWorker, NoExec)>>,
    <<Frame("complete", NoWorker, 1), Frame("ready", NoWorker, NoExec)>> }

\* wss 'connection' with a missing or wrong token: ws.close(1008) and return,
\* handleConnection is not called and so no listener is attached
ConnectRejected(c, w) ==
  /\ Quiescent
  /\ connState[c] = "unused"
  /\ \A d \in 1 .. c - 1 : connState[d] # "unused"
  /\ ~TokenValid(connTok[c])
  /\ connState' = [connState EXCEPT ![c] = "rejected"]
  /\ \E fs \in UnansweredFrames(w) : chan' = [chan EXCEPT ![c] = fs]
  /\ out' = <<Out("close", c, NoExec, CLOSE_POLICY, "")>>
  /\ UNCHANGED <<workers, timers, connWid, dispVars, tokenVars, nextId, execInfo, eventVars, sideVars>>

\* a frame arrives on a rejected transport: no 'message' listener, it is dropped
RejectedMessage(c) ==
  /\ Quiescent
  /\ connState[c] = "rejected"
  /\ Len(chan[c]) > 0
  /\ chan' = [chan EXCEPT ![c] = Tail(@)]
  /\ out' = <<>>
  /\ UNCHANGED <<workers, timers, connState, connWid, dispVars, tokenVars, nextId, execInfo, eventVars, sideVars>>

\* the closing handshake of a rejected transport ends: no 'close' listener
RejectedClose(c) ==
  /\ Quiescent
  /\ connState[c] = "rejected"
  /\ connState' = [connState EXCEPT ![c] = "refused"]
  /\ chan' = [chan EXCEPT ![c] = <<>>]
  /\ out' = <<>>
  /\ UNCHANGED <<workers, timers, connWid, dispVars, tokenVars, nextId, execInfo, eventVars, sideVars>>

\* ws 'message' with a hello frame
RecvHello(c) ==
  /\ Quiescent
  /\ connState[c] = "open"
  /\ Len(chan[c]) > 0
  /\ Head(chan[c]).type = "hello"
  /\ LET w == Head(chan[c]).wid
         s0 == [Cur EXCEPT !.chan[c] = Tail(@)]
     IN /\ connWid' = [connWid EXCEPT ![c] = w]
        /\ Commit(registerWorker(s0, w, c))
  /\ UNCHANGED <<nextId, execInfo, eventVars, sideVars>>

\* ws 'message' with a ready frame
RecvReady(c) ==
  /\ Quiescent
  /\ connState[c] = "open"
  /\ Len(chan[c]) > 0
  /\ Head(chan[c]).type = "ready"
  /\ connWid[c] # NoWorker
  /\ Commit(handleWorkerMessage([Cur EXCEPT !.chan[c] = Tail(@)], connWid[c], Head(chan[c]), "none"))
  /\ UNCHANGED <<connWid, nextId, execInfo, eventVars, sideVars>>

\* ws 'message' with a complete frame
RecvComplete(c, st) ==
  /\ Quiescent
  /\ connState[c] = "open"
  /\ Len(chan[c]) > 0
  /\ Head(chan[c]).type = "complete"
  /\ connWid[c] # NoWorker
  /\ Commit(handleWorkerMessage([Cur EXCEPT !.chan[c] = Tail(@)], connWid[c], Head(chan[c]), st))
  /\ UNCHANGED <<connWid, nextId, execInfo, eventVars, sideVars>>

\* ws 'message' with a heartbeat frame (the worker's own 30 s interval)
RecvHeartbeat(c) ==
  /\ Quiescent
  /\ connState[c] = "open"
  /\ connWid[c] # NoWorker
  /\ Commit(handleWorkerMessage(Cur, connWid[c], Frame("heartbeat", NoWorker, NoExec), "none"))
  /\ UNCHANGED <<connWid, nextId, execInfo, eventVars, sideVars>>

\* the transport starts closing: the peer's close frame arrives or the socket fails
TransportClosing(c) ==
  /\ Quiescent
  /\ connState[c] = "open"
  /\ connState' = [connState EXCEPT ![c] = "closing"]
  /\ out' = <<>>
  /\ UNCHANGED <<workers, timers, connWid, chan, dispVars, tokenVars, nextId, execInfo, eventVars, sideVars>>

\* heartbeat interval fires and finds the worker silent for too long
HeartbeatTimeout(c) ==
  /\ Quiescent
  /\ c \in timers
  /\ HasWorker(workers, connWid[c])
  /\ connState[GetWorker(workers, connWid[c]).ws] = "open"
  /\ Commit(WsClose(Cur, GetWorker(workers, connWid[c]).ws, CLOSE_GOING_AWAY))
  /\ UNCHANGED <<connWid, nextId, execInfo, eventVars, sideVars>>

\* ws 'close'
CloseEvent(c) ==
  /\ Quiescent
  /\ connState[c] = "closing"
  /\ LET s0 == [Cur EXCEPT !.connState[c] = "closed", !.chan[c] = <<>>]
     IN Commit(IF connWid[c] # NoWorker THEN unregisterWorker(s0, connWid[c]) ELSE s0)
  /\ UNCHANGED <<connWid, nextId, execInfo, eventVars, sideVars>>

\* ---- actions of the Dispatcher and the token sources

\* POST /api/execute
Submit ==
  /\ Quiescent
  /\ nextId <= MaxReq
  /\ Commit(submit(Cur, nextId))
  /\ nextId' = nextId + 1
  /\ execInfo' = [execInfo EXCEPT ![nextId] = [persona |-> "manual", src |-> "direct", eventId |-> 0, subscriptionId |-> 0]]
  /\ UNCHANGED <<connWid, eventVars, sideVars>>

\* continuation of dispatchToWorker after await getValidAccessToken()
Resume(i, ok) ==
  /\ tick.pc = "idle"
  /\ i \in 1 .. Len(pending)
  /\ IF MicroPending
     THEN /\ pending[i].kind = "micro"
          /\ \A j \in 1 .. i - 1 : pending[j].kind # "micro"
          /\ ok
     ELSE TRUE
  /\ LET p == pending[i]
         rest == [j \in 1 .. Len(pending) - 1 |-> IF j < i THEN pending[j] ELSE pending[j + 1]]
         s0 == [Cur EXCEPT !.pending = rest,
                           !.oauth = IF p.kind = "refresh" /\ ok THEN "fresh" ELSE @]
     IN Commit(DispatchWithToken(s0, p.w, p.id, ok))
  /\ UNCHANGED <<connWid, nextId, execInfo, eventVars, sideVars>>

\* POST /api/token
SetToken ==
  /\ Quiescent
  /\ ~stored
  /\ stored' = TRUE
  /\ out' = <<>>
  /\ UNCHANGED <<poolVars, connWid, dispVars, oauth, nextId, execInfo, eventVars, sideVars>>

\* POST /api/oauth/callback with a successful exchangeCode
OAuthConnect ==
  /\ Quiescent
  /\ oauth = "none"
  /\ oauth' = "fresh"
  /\ stored' = TRUE
  /\ out' = <<>>
  /\ UNCHANGED <<poolVars, connWid, dispVars, nextId, execInfo, eventVars, sideVars>>

\* the access token comes within ten minutes of its expiry
TokenAges ==
  /\ Quiescent
  /\ oauth = "fresh"
  /\ oauth' = "expiring"
  /\ out' = <<>>
  /\ UNCHANGED <<poolVars, connWid, dispVars, stored, nextId, execInfo, eventVars, sideVars>>

\* DELETE /api/oauth
OAuthDisconnect ==
  /\ Quiescent
  /\ oauth # "none" \/ stored
  /\ oauth' = "none"
  /\ stored' = FALSE
  /\ out' = <<>>
  /\ UNCHANGED <<poolVars, connWid, dispVars, nextId, execInfo, eventVars, sideVars>>

\* the retention timeout of a finished execution fires
Reap(e) ==
  /\ Quiescent
  /\ reap[e] > 0
  /\ reap' = [reap EXCEPT ![e] = @ - 1]
  /\ active' = [active EXCEPT ![e] = NoActive]
  /\ output' = [output EXCEPT ![e] = <<>>]
  /\ out' = <<>>
  /\ UNCHANGED <<poolVars, connWid, queue, dbExec, dbCols, pending, outputData, tokenVars, nextId, execInfo, eventVars, sideVars>>

\* POST /api/executions/:id/cancel
Cancel(e) ==
  /\ Quiescent
  /\ LET r == cancelExecution(Cur, e)
     IN Commit(Emit(r.s, Out("http_cancel", NoConn, e, IF r.ok THEN HTTP_OK ELSE HTTP_NOT_FOUND, "")))
  /\ UNCHANGED <<connWid, nextId, execInfo, eventVars, sideVars>>

\* ---- actions of the Event Processor

\* db.publishEvent: a new pending row
PublishEvent(i, kind) ==
  /\ Quiescent
  /\ events[i].status = "none"
  /\ \A j \in 1 .. i - 1 : events[j].status # "none"
  /\ events' = [events EXCEPT ![i] = [kind |-> kind, status |-> "pending", errorMessage |-> NoMessage]]
  /\ out' = <<>>
  /\ UNCHANGED <<poolVars, connWid, dispVars, tokenVars, nextId, execInfo, tick, sideVars>>

\* eventBusTick: read the pending events
TickStart ==
  /\ Quiescent
  /\ getPendingEvents(events) # <<>>
  /\ tick' = [IdleTick EXCEPT !.pc = "mark", !.evs = getPendingEvents(events)]
  /\ out' = <<>>
  /\ UNCHANGED <<poolVars, connWid, dispVars, tokenVars, nextId, execInfo, events, sideVars>>

\* eventBusTick: mark the next event as processing
TickMark ==
  /\ tick.pc = "mark"
  /\ events' = updateEventStatus(events, Head(tick.evs), "processing", NoMessage)
  /\ tick' = [tick EXCEPT !.pc = "match"]
  /\ out' = <<>>
  /\ UNCHANGED <<poolVars, connWid, dispVars, tokenVars, nextId, execInfo, sideVars>>

NextEvent(t) ==
  IF Len(t.evs) > 1
  THEN [IdleTick EXCEPT !.pc = "mark", !.evs = Tail(t.evs)]
  ELSE IdleTick

\* eventBusTick: match the event against its subscriptions
TickMatch ==
  /\ tick.pc = "match"
  /\ LET ev == Head(tick.evs)
         matches == matchEvent(events[ev].kind, getSubscriptionsByEventType(events[ev].kind.eventType))
     IN IF Len(matches) = 0
        THEN /\ events' = updateEventStatus(events, ev, "skipped", NoMessage)
             /\ tick' = NextEvent(tick)
        ELSE /\ events' = events
             /\ tick' = [tick EXCEPT !.pc = "deliver", !.matches = matches]
  /\ out' = <<>>
  /\ UNCHANGED <<poolVars, connWid, dispVars, tokenVars, nextId, execInfo, sideVars>>

\* eventBusTick: one iteration of the loop over the matches
TickDeliver ==
  /\ tick.pc = "deliver"
  /\ LET match == Head(tick.matches)
         p == match.personaId
         rest == Tail(tick.matches)
         pc2 == IF Len(rest) = 0 THEN "final" ELSE "deliver"
     IN IF p \notin Personas \/ countRunningExecutions(dbExec, execInfo, p) >= maxConcurrent(p)
        THEN /\ tick' = [tick EXCEPT !.pc = pc2, !.matches = rest, !.failed = @ + 1]
             /\ out' = <<>>
             /\ UNCHANGED <<poolVars, dispVars, tokenVars, nextId, execInfo>>
        ELSE /\ nextId <= MaxReq
             /\ tick' = [tick EXCEPT !.pc = pc2, !.matches = rest, !.delivered = @ + 1]
             /\ execInfo' = [execInfo EXCEPT ![nextId] = [persona |-> p, src |-> "event", eventId |-> Head(tick.evs),
                                                          subscriptionId |-> match.subscriptionId]]
             /\ nextId' = nextId + 1
             /\ Commit(submit(Cur, nextId))
  /\ UNCHANGED <<connWid, events, sideVars>>

\* the final update that calls an event with a failed match 'failed'
finalStatus_strict(ev, i, delivered, failed) ==
  IF failed = 0 THEN updateEventStatus(ev, i, "delivered", NoMessage)
  ELSE updateEventStatus(ev, i, "failed", ALL_FAILED)

\* eventBusTick: the update after the loop over the matches
finalStatus(ev, i, delivered, failed) ==
  IF failed = 0 THEN updateEventStatus(ev, i, "delivered", NoMessage)
  ELSE IF delivered > 0 THEN updateEventStatus(ev, i, "partial", NoMessage)
  ELSE updateEventStatus(ev, i, "failed", ALL_FAILED)

\* eventBusTick: write the final status of the event
TickFinal ==
  /\ tick.pc = "final"
  /\ events' = finalStatus(events, Head(tick.evs), tick.delivered, tick.failed)
  /\ tick' = NextEvent(tick)
  /\ out' = <<>>
  /\ UNCHANGED <<poolVars, connWid, dispVars, tokenVars, nextId, execInfo, sideVars>>

Next ==
  \/ \E c \in Conns, w \in WorkerIds : Connect(c, w)
  \/ \E c \in Conns : RecvHello(c)
  \/ \E c \in Conns : RecvReady(c)
  \/ \E c \in Conns, st \in {"completed", "failed", "cancelled"} : RecvComplete(c, st)
  \/ \E c \in Conns : RecvHeartbeat(c)
  \/ \E c \in Conns : TransportClosing(c)
  \/ \E c \in Conns : HeartbeatTimeout(c)
  \/ \E c \in Conns : CloseEvent(c)
  \/ Submit
  \/ \E i \in 1 .. MaxReq, ok \in BOOLEAN : Resume(i, ok)
  \/ SetToken
  \/ OAuthConnect
  \/ TokenAges
  \/ OAuthDisconnect
  \/ \E e \in ExecIds : Reap(e)
  \/ \E e \in ExecIds : Cancel(e)

Spec == Init /\ [][Next]_vars

\* The Event Processor with the Dispatcher and the Worker Pool it feeds
NextEvents ==
  \/ \E i \in EvIds, kind \in EventKinds : PublishEvent(i, kind)
  \/ TickStart
  \/ TickMark
  \/ TickMatch
  \/ TickDeliver
  \/ TickFinal
  \/ \E c \in Conns, w \in WorkerIds : Connect(c, w)
  \/ \E c \in Conns : RecvHello(c)
  \/ \E c \in Conns : RecvReady(c)
  \/ \E c \in Conns, st \in {"completed", "failed", "cancelled"} : RecvComplete(c, st)
  \/ \E c \in Conns : TransportClosing(c)
  \/ \E c \in Conns : CloseEvent(c)
  \/ SetToken

SpecEvents == Init /\ [][NextEvents]_vars

\* ---- the Event Processor when a call into the store or the matcher throws

\* a throw of db.updateEventStatus, db.getSubscriptionsByEventType or
\* matchEvent in the loop over the events: nothing in eventBusTick catches it,
\* the callback of setInterval logs it and the tick is over
TickThrows ==
  /\ tick.pc \in {"mark", "match", "final"}
  /\ tick' = IdleTick
  /\ out' = <<Out("tick_failed", NoConn, NoExec, 0, tick.pc)>>
  /\ UNCHANGED <<poolVars, connWid, dispVars, tokenVars, nextId, execInfo, events, sideVars>>

\* a throw inside the loop over the matches: the try / catch around one match
\* counts it as a failed match
TickDeliverThrows ==
  /\ tick.pc = "deliver"
  /\ tick' = [tick EXCEPT !.pc = IF Len(tick.matches) = 1 THEN "final" ELSE "deliver",
                          !.matches = Tail(tick.matches), !.failed = @ + 1]
  /\ out' = <<Out("match_failed", NoConn, NoExec, 0, "")>>
  /\ UNCHANGED <<poolVars, connWid, dispVars, tokenVars, nextId, execInfo, events, sideVars>>

NextThrow ==
  \/ \E i \in EvIds, kind \in EventKinds : PublishEvent(i, kind)
  \/ TickStart
  \/ TickMark
  \/ TickMatch
  \/ TickDeliver
  \/ TickFinal
  \/ TickThrows
  \/ TickDeliverThrows

\* setInterval fires again and again, and a tick that does not throw runs to
\* the end of eventBusTick
FairTicks ==
  /\ WF_vars(TickStart)
  /\ WF_vars(TickMark)
  /\ WF_vars(TickMatch)
  /\ WF_vars(TickDeliver)
  /\ WF_vars(TickFinal)

SpecThrow == Init /\ [][NextThrow]_vars /\ FairTicks

\* The Worker Pool's listener with clients of any token, and the Dispatcher
InitAuth ==
  /\ InitOrchestrator
  /\ triggers = NoTriggers
  /\ now = 0
  /\ call = NoCall
  /\ connTok \in [Conns -> Tokens]

NextAuth ==
  \/ \E c \in Conns, w \in WorkerIds : Connect(c, w)
  \/ \E c \in Conns, w \in WorkerIds : ConnectRejected(c, w)
  \/ \E c \in Conns : RejectedMessage(c)
  \/ \E c \in Conns : RejectedClose(c)
  \/ \E c \in Conns : RecvHello(c)
  \/ \E c \in Conns : RecvReady(c)
  \/ \E c \in Conns, st \in {"completed", "failed", "cancelled"} : RecvComplete(c, st)
  \/ \E c \in Conns : TransportClosing(c)
  \/ \E c \in Conns : CloseEvent(c)
  \/ Submit
  \/ SetToken

SpecAuth == InitAuth /\ [][NextAuth]_vars

\* The queueing scenario: every request is submitted before the first worker connects
SubmitBeforeWorkers ==
  /\ \A c \in Conns : connState[c] = "unused"
  /\ Submit

NextQueueing ==
  \/ SubmitBeforeWorkers
  \/ \E c \in Conns, w \in WorkerIds : Connect(c, w)
  \/ \E c \in Conns : RecvHello(c)
  \/ \E c \in Conns : RecvReady(c)
  \/ \E c \in Conns, st \in {"completed", "failed", "cancelled"} : RecvComplete(c, st)
  \/ \E c \in Conns : RecvHeartbeat(c)
  \/ \E c \in Conns : TransportClosing(c)
  \/ \E c \in Conns : CloseEvent(c)
  \/ SetToken
  \/ \E e \in ExecIds : Reap(e)

SpecQueueing == Init /\ [][NextQueueing]_vars

\* ---- the pure functions of the matching stage, applied to every argument
\* of a bounded set
orchVars == <<poolVars, connWid, dispVars, tokenVars, nextId, execInfo, eventVars, out>>

Chars == {"a", "b", "*"}
Strings == UNION {[1 .. n -> Chars] : n \in 0 .. MaxStr}
SubKinds ==
  { Sub(0, p, t, f, en) :
      p \in Personas, t \in {"push", "mr"}, f \in {Null, <<>>, <<"a">>, <<"a", "*">>},
      en \in BOOLEAN }
SubLists ==
  UNION { { [i \in 1 .. n |-> [l[i] EXCEPT !.id = i]] : l \in [1 .. n -> SubKinds] } :
          n \in 0 .. MaxSubs }
MatchedEvents ==
  { Event(t, "webhook", src, target) :
      t \in {"push", "mr"}, src \in {Null, <<>>, <<"a">>, <<"a", "b">>},
      target \in {NoPersona, "", "p1", "p2"} }

MatchCall(event, subs) ==
  [fn |-> "matchEvent", event |-> event, subs |-> subs, done |-> FALSE, result |-> <<>>]
FilterCall(filter, sourceId) ==
  [fn |-> "sourceFilterMatches", filter |-> filter, sourceId |-> sourceId,
   done |-> FALSE, result |-> FALSE]

\* ---- credential injection of dispatchToWorker

\* JSON values: kind, and for the kinds Object.entries accepts, its entries
JSONValue(kind, entries) == [kind |-> kind, entries |-> entries]
\* JSON.parse on the plaintexts a credential is stored with ("error": throws)
JSONparse(text) ==
  CASE text = "{\"token\":\"t1\"}" -> JSONValue("object", << <<"token", "t1">> >>)
    [] text = "{\"user\":\"u\",\"pass\":\"p\"}" ->
         JSONValue("object", << <<"user", "u">>, <<"pass", "p">> >>)
    [] text = "{}" -> JSONValue("object", <<>>)
    [] text = "7" -> JSONValue("number", <<>>)
    [] text = "\"ab\"" -> JSONValue("string", << <<"0", "a">>, <<"1", "b">> >>)
    [] text = "true" -> JSONValue("true", <<>>)
    [] text = "null" -> JSONValue("null", <<>>)
    [] OTHER -> JSONValue("error", <<>>)
Plaintexts ==
  {"sk-tok", "{\"token\":\"t1\"}", "{\"user\":\"u\",\"pass\":\"p\"}", "7", "\"ab\"", "true", "null"}

\* x.toUpperCase().replace(/[^A-Z0-9]/g, '_')
EnvPart(x) ==
  CASE x = "github" -> "GITHUB"
    [] x = "my-api" -> "MY_API"
    [] x = "token" -> "TOKEN"
    [] x = "user" -> "USER"
    [] x = "pass" -> "PASS"
    [] OTHER -> x
CredentialNames == <<"github", "my-api">>
Credential(name, plaintext, decrypts) == [name |-> name, plaintext |-> plaintext, decrypts |-> decrypts]

\* env[name] = value
EnvSet(env, name, value) == {p \in env : p[1] # name} \cup {<<name, value>>}

RECURSIVE SetFields(_, _, _)
SetFields(env, base, entries) ==
  IF entries = <<>> THEN env
  ELSE SetFields(EnvSet(env, base \o "_" \o EnvPart(Head(entries)[1]), Head(entries)[2]),
                 base, Tail(entries))

\* the body of the loop over the credentials, for one credential: decrypt
\* throws (nothing is set), JSON.parse throws or Object.entries throws on
\* null (the plaintext is set under the base name), or one variable per entry
InjectOne(env, cred) ==
  LET envName == "CONNECTOR_" \o EnvPart(cred.name)
      fields == JSONparse(cred.plaintext)
  IN IF ~cred.decrypts THEN env
     ELSE IF fields.kind \in {"error", "null"} THEN EnvSet(env, envName, cred.plaintext)
     ELSE SetFields(env, envName, fields.entries)

RECURSIVE InjectCredentials(_, _)
InjectCredentials(st, creds) ==
  IF creds = <<>> THEN st
  ELSE InjectCredentials(
         [env |-> InjectOne(st.env, Head(creds)),
          credentialHints |-> Append(st.credentialHints, "CONNECTOR_" \o EnvPart(Head(creds).name))],
         Tail(creds))

CredLists ==
  UNION { { [i \in 1 .. n |-> Credential(CredentialNames[i], l[i][1], l[i][2])] :
            l \in [1 .. n -> Plaintexts \X BOOLEAN] } : n \in 1 .. MaxCreds }
InjectCall(creds) ==
  [fn |-> "injectCredentials", creds |-> creds, done |-> FALSE,
   result |-> [env |-> {}, credentialHints |-> <<>>]]

\* ---- the prompt of an execution submitted for an event match

\* match.payload: null, or the text stored with the event
Payload(isNull, text) == [isNull |-> isNull, text |-> text]
EventPayloads ==
  {Payload(TRUE, "")} \cup {Payload(FALSE, t) : t \in {"", "{\"token\":\"t1\"}", "7", "null", "oops"}}
\* a value of inputData: what it is and the JSON text it stands for
InputData(kind, text) == [kind |-> kind, text |-> text]
NoInputData == InputData("undefined", "")
\* eventBusTick: inputData for match.payload (JSON.parse, or { raw } when it throws)
inputDataOf(payload) ==
  IF payload.isNull \/ payload.text = "" THEN NoInputData
  ELSE IF JSONparse(payload.text).kind = "error" THEN InputData("raw", payload.text)
  ELSE InputData(JSONparse(payload.text).kind, payload.text)
\* if (inputData)
Truthy(inputData) == inputData.kind \notin {"undefined", "null"}
\* assemblePrompt: the sections of the prompt, the Input Data section among them
assemblePrompt(persona, inputData) ==
  <<[section |-> "Persona", body |-> persona]>>
    \o (IF Truthy(inputData) THEN <<[section |-> "Input Data", body |-> inputData.text]>> ELSE <<>>)
    \o <<[section |-> "EXECUTE NOW", body |-> persona]>>
\* dispatchToWorker: the prompt of the assign frame for a request
assignPrompt(request, database, found) ==
  IF database /\ found THEN assemblePrompt(request.personaId, request.inputData)
  ELSE request.prompt
\* database: the Dispatcher has a database; found: db.getPersona finds the persona
PromptCall(payload, database, found) ==
  [fn |-> "eventPrompt", payload |-> payload, database |-> database, found |-> found,
   done |-> FALSE, result |-> <<>>]

InitPure ==
  /\ InitOrchestrator
  /\ connTok = ConfiguredTokens
  /\ triggers = NoTriggers
  /\ now = 0
  /\ call \in { MatchCall(event, subs) : event \in MatchedEvents, subs \in SubLists }
         \cup { FilterCall(f, src) : f \in Strings, src \in Strings \cup {Null} }
         \cup { InjectCall(creds) : creds \in CredLists }
         \cup { PromptCall(payload, database, found) :
                  payload \in EventPayloads, database \in BOOLEAN, found \in BOOLEAN }

ApplyMatchEvent ==
  /\ call.fn = "matchEvent" /\ ~call.done
  /\ call' = [call EXCEPT !.result = matchEvent(call.event, call.subs), !.done = TRUE]
  /\ UNCHANGED <<orchVars, triggers, now, connTok, oauthVars, timeVars, written>>

ApplySourceFilterMatches ==
  /\ call.fn = "sourceFilterMatches" /\ ~call.done
  /\ call' = [call EXCEPT !.result = sourceFilterMatches(call.filter, call.sourceId), !.done = TRUE]
  /\ UNCHANGED <<orchVars, triggers, now, connTok, oauthVars, timeVars, written>>

\* the loop over the persona's credentials, started with the env that holds
\* the token
ApplyInjectCredentials ==
  /\ call.fn = "injectCredentials" /\ ~call.done
  /\ call' = [call EXCEPT
       !.result = InjectCredentials([env |-> {<<"ANTHROPIC_API_KEY", "tok">>}, credentialHints |-> <<>>],
                                    call.creds),
       !.done = TRUE]
  /\ UNCHANGED <<orchVars, triggers, now, connTok, oauthVars, timeVars, written>>

\* eventBusTick builds the request of a match (prompt assembled with the
\* payload; the request object has no inputData field) and submits it; the
\* Dispatcher assembles the prompt of the assign frame
ApplyEventPrompt ==
  /\ call.fn = "eventPrompt" /\ ~call.done
  /\ LET request == [personaId |-> "p1",
                     prompt |-> assemblePrompt("p1", inputDataOf(call.payload)),
                     inputData |-> NoInputData]
     IN call' = [call EXCEPT !.result = assignPrompt(request, call.database, call.found),
                             !.done = TRUE]
  /\ UNCHANGED <<orchVars, triggers, now, connTok, oauthVars, timeVars, written>>

NextPure ==
  \/ ApplyMatchEvent
  \/ ApplySourceFilterMatches
  \/ ApplyInjectCredentials
  \/ ApplyEventPrompt

SpecPure == InitPure /\ [][NextPure]_vars

\* ---- Trigger Scheduler

\* A timestamp as text: its date part, the separator that follows the date,
\* and its time-of-day part. Date.toISOString() writes 'YYYY-MM-DDTHH:MM:SS.sssZ',
\* SQLite's datetime() writes 'YYYY-MM-DD HH:MM:SS'.
toISOString(t) == [date |-> t \div DayLen, sep |-> "T", time |-> t % DayLen]
datetime(t) == [date |-> t \div DayLen, sep |-> " ", time |-> t % DayLen]
NullTime == [date |-> 0, sep |-> "null", time |-> 0]
\* the instant a timestamp denotes
Instant(text) == text.date * DayLen + text.time

\* a <= b for TEXT values (bytewise): ' ' sorts before 'T'
TextLeq(a, b) ==
  \/ a.date < b.date
  \/ a.date = b.date /\ a.sep = " " /\ b.sep = "T"
  \/ a.date = b.date /\ a.sep = b.sep /\ a.time <= b.time

Cron(kind, n) == [kind |-> kind, n |-> n]
NoCron == Cron("none", 0)
Config(present, valid, et, cron, ivl) ==
  [present |-> present, valid |-> valid, event_type |-> et, cron |-> cron, interval_seconds |-> ivl]
NoConfig == Config(FALSE, FALSE, "", NoCron, 0)
Trigger(i, p, type, config, en, next) ==
  [id |-> i, personaId |-> p, triggerType |-> type, config |-> config, enabled |-> en,
   lastTriggeredAt |-> NullTime, nextTriggerAt |-> next]
TriggerIds == << <<"t", "1">>, <<"t", "2">>, <<"t", "3">> >>

\* triggerType and config of the rows the scheduler is run on
TriggerKinds ==
  { <<"schedule", Config(TRUE, TRUE, "tick", Cron("every", 2), 0)>>,
    <<"schedule", Config(TRUE, TRUE, "", NoCron, 1)>>,
    <<"schedule", Config(TRUE, TRUE, "", Cron("other", 0), 0)>>,
    <<"schedule", Config(TRUE, FALSE, "", NoCron, 0)>>,
    <<"polling", Config(TRUE, TRUE, "poll", NoCron, 1)>>,
    <<"webhook", NoConfig>> }

\* computeNextCron without the one-hour fallback
computeNextCron_no_fallback(cron, t) ==
  IF cron.kind = "every" THEN toISOString(t + cron.n) ELSE NullTime
\* computeNextCron: 'every N s' or the one-hour fallback
computeNextCron(cron, t) ==
  IF cron.kind = "every" THEN toISOString(t + cron.n) ELSE toISOString(t + HourLen)

\* db.getDueTriggers: enabled = 1 AND next_trigger_at <= datetime('now')
getDueTriggers(trigs, t) ==
  SelectSeq([i \in 1 .. Len(trigs) |-> i], LAMBDA i :
    /\ trigs[i].enabled
    /\ trigs[i].nextTriggerAt # NullTime
    /\ TextLeq(trigs[i].nextTriggerAt, datetime(t)))

\* the event type a firing trigger publishes
TriggerEventType(T) ==
  IF T.config.present /\ T.config.valid /\ T.config.event_type # ""
  THEN T.config.event_type ELSE "trigger_fired"

\* the nextTriggerAt the tick computes for a trigger that fired at t
NextTriggerAt(T, t) ==
  IF T.triggerType = "schedule" /\ T.config.present /\ T.config.valid
  THEN IF T.config.cron.kind # "none" THEN computeNextCron(T.config.cron, t)
       ELSE IF T.config.interval_seconds # 0 THEN toISOString(t + T.config.interval_seconds)
       ELSE NullTime
  ELSE NullTime

\* db.publishEvent: a new pending row in the first free place
FreeEvents(ev) == {i \in EvIds : ev[i].status = "none"}
publishEvent(ev, kind) ==
  LET i == CHOOSE j \in FreeEvents(ev) : \A k \in FreeEvents(ev) : j <= k
  IN [ev EXCEPT ![i] = [kind |-> kind, status |-> "pending", errorMessage |-> NoMessage]]

\* db.updateTriggerTimings
updateTriggerTimings(trigs, i, last, next) ==
  [trigs EXCEPT ![i].lastTriggeredAt = last, ![i].nextTriggerAt = next]

\* triggerSchedulerTick: the loop over the due triggers; st = [triggers, events, fired]
RECURSIVE FireAll(_, _, _)
FireAll(due, st, t) ==
  IF due = <<>> THEN st
  ELSE LET i == Head(due)
           T == st.triggers[i]
       IN IF T.triggerType = "polling" THEN FireAll(Tail(due), st, t)
          ELSE FireAll(Tail(due),
                 [triggers |-> updateTriggerTimings(st.triggers, i, toISOString(t), NextTriggerAt(T, t)),
                  events |-> publishEvent(st.events,
                               Event(TriggerEventType(T), "trigger", T.id, T.personaId)),
                  fired |-> st.fired + 1],
                 t)

\* the triggers of a tick that are not skipped
Firing(trigs, t) ==
  SelectSeq(getDueTriggers(trigs, t), LAMBDA i : trigs[i].triggerType # "polling")

InitTriggers ==
  /\ InitOrchestrator
  /\ connTok = ConfiguredTokens
  /\ call = NoCall
  /\ now = DayLen
  /\ \E n \in 1 .. MaxTriggers :
       triggers \in
         { [i \in 1 .. n |-> Trigger(TriggerIds[i], IF i = 1 THEN "p1" ELSE "p2",
                                     l[i][1][1], l[i][1][2], l[i][2], l[i][3])] :
           l \in [1 .. n -> TriggerKinds \X BOOLEAN \X
                            {NullTime, toISOString(DayLen - 1), datetime(DayLen), toISOString(DayLen + 1)}] }

\* time passes
ClockTick ==
  /\ now < MaxNow
  /\ now' = now + 1
  /\ out' = <<>>
  /\ UNCHANGED <<poolVars, connWid, dispVars, tokenVars, nextId, execInfo, eventVars, triggers, call, connTok, oauthVars, timeVars, written>>

\* the scheduler's interval fires: triggerSchedulerTick
TriggerTick ==
  /\ Quiescent
  /\ Len(Firing(triggers, now)) <= Cardinality(FreeEvents(events))
  /\ LET st == FireAll(getDueTriggers(triggers, now),
                       [triggers |-> triggers, events |-> events, fired |-> 0], now)
     IN /\ triggers' = st.triggers
        /\ events' = st.events
        /\ out' = <<Out("trigger_tick", NoConn, NoExec, st.fired, "")>>
  /\ UNCHANGED <<poolVars, connWid, dispVars, tokenVars, nextId, execInfo, tick, now, call, connTok, oauthVars, timeVars, written>>

NextTriggers ==
  \/ ClockTick
  \/ TriggerTick

SpecTriggers == InitTriggers /\ [][NextTriggers]_vars

\* ---- the Worker Pool with its timers: the hello timeout, the heartbeat
\* interval and the clock they read

\* frames a client with a valid token may send after the transport opened
OpeningFrames(w) ==
  { <<Frame("hello", w, NoExec)>>,
    <<Frame("ready", NoWorker, NoExec), Frame("hello", w, NoExec)>>,
    <<Frame("complete", NoWorker, 1)>>,
    <<>> }

\* clearTimeout that leaves the timer armed
clearTimeout_noop(due, c) == due

\* clearTimeout(connectionTimeout)
clearTimeout(due, c) == [due EXCEPT ![c] = Undefined]

\* wss 'connection' with a valid token: handleConnection arms the hello timeout
TimedConnect(c, w) ==
  /\ Quiescent
  /\ connState[c] = "unused"
  /\ \A d \in 1 .. c - 1 : connState[d] # "unused"
  /\ TokenValid(connTok[c])
  /\ connState' = [connState EXCEPT ![c] = "open"]
  /\ \E fs \in OpeningFrames(w) : chan' = [chan EXCEPT ![c] = fs]
  /\ helloDue' = [helloDue EXCEPT ![c] = clock + HELLO_TIMEOUT_MS]
  /\ out' = <<>>
  /\ UNCHANGED <<workers, timers, connWid, dispVars, tokenVars, nextId, execInfo, eventVars,
                 triggers, now, call, connTok, oauthVars, written, clock, lastHeartbeat, hbDue, stopped>>

\* ws 'message' with a hello frame: clearTimeout, then registerWorker, which
\* stamps lastHeartbeat and starts the heartbeat interval
TimedRecvHello(c) ==
  /\ Quiescent
  /\ connState[c] = "open"
  /\ ~stopped[c]
  /\ Len(chan[c]) > 0
  /\ Head(chan[c]).type = "hello"
  /\ LET w == Head(chan[c]).wid
         s0 == [Cur EXCEPT !.chan[c] = Tail(@)]
     IN /\ connWid' = [connWid EXCEPT ![c] = w]
        /\ Commit(registerWorker(s0, w, c))
  /\ helloDue' = clearTimeout(helloDue, c)
  /\ lastHeartbeat' = [lastHeartbeat EXCEPT ![c] = clock]
  /\ hbDue' = [hbDue EXCEPT ![c] = clock + HEARTBEAT_INTERVAL_MS]
  /\ UNCHANGED <<nextId, execInfo, eventVars, triggers, now, call, connTok, oauthVars, written, clock, stopped>>

\* ws 'message' with any other frame while workerId is still null:
\* 'Message before hello', return
MessageBeforeHello(c) ==
  /\ Quiescent
  /\ connState[c] = "open"
  /\ ~stopped[c]
  /\ Len(chan[c]) > 0
  /\ Head(chan[c]).type # "hello"
  /\ connWid[c] = NoWorker
  /\ chan' = [chan EXCEPT ![c] = Tail(@)]
  /\ out' = <<Out("before_hello", c, NoExec, 0, Head(chan[c]).type)>>
  /\ UNCHANGED <<workers, timers, connState, connWid, dispVars, tokenVars, nextId, execInfo,
                 eventVars, sideVars>>

\* the hello timeout fires
HelloTimeout(c) ==
  /\ Quiescent
  /\ helloDue[c] # Undefined
  /\ helloDue[c] <= clock
  /\ Commit(IF connWid[c] = NoWorker THEN WsClose(Cur, c, CLOSE_POLICY) ELSE Cur)
  /\ helloDue' = [helloDue EXCEPT ![c] = Undefined]
  /\ UNCHANGED <<connWid, nextId, execInfo, eventVars, triggers, now, call, connTok, oauthVars, written,
                 clock, lastHeartbeat, hbDue, stopped>>

\* ws 'message' with a heartbeat frame of a worker that is still sending:
\* handleWorkerMessage stamps the entry registered under the worker id
TimedRecvHeartbeat(c) ==
  /\ Quiescent
  /\ connState[c] = "open"
  /\ connWid[c] # NoWorker
  /\ ~stopped[c]
  /\ Commit(Emit(handleWorkerMessage(Cur, connWid[c], Frame("heartbeat", NoWorker, NoExec), "none"),
                 Out("recv_heartbeat", c, NoExec, 0, "")))
  /\ lastHeartbeat' = IF HasWorker(workers, connWid[c])
                      THEN [lastHeartbeat EXCEPT ![GetWorker(workers, connWid[c]).ws] = clock]
                      ELSE lastHeartbeat
  /\ UNCHANGED <<connWid, nextId, execInfo, eventVars, triggers, now, call, connTok, oauthVars, written,
                 clock, hbDue, helloDue, stopped>>

\* the worker's process hangs or its network goes silent: no frame of it
\* arrives any more (the clock still has room for the timeout)
WorkerStops(c) ==
  /\ Quiescent
  /\ connState[c] = "open"
  /\ ~stopped[c]
  /\ clock + HEARTBEAT_TIMEOUT_MS + HEARTBEAT_INTERVAL_MS <= MaxTicks * HEARTBEAT_INTERVAL_MS
  /\ stopped' = [stopped EXCEPT ![c] = TRUE]
  /\ out' = <<>>
  /\ UNCHANGED <<poolVars, connWid, dispVars, tokenVars, nextId, execInfo, eventVars,
                 triggers, now, call, connTok, oauthVars, written, clock, lastHeartbeat, hbDue, helloDue>>

\* the heartbeat test that also closes a worker exactly at the limit
Overdue_at_limit(last, t) == t - last >= HEARTBEAT_TIMEOUT_MS

\* Date.now() - entry.info.lastHeartbeat > HEARTBEAT_TIMEOUT_MS
Overdue(last, t) == t - last > HEARTBEAT_TIMEOUT_MS

\* the heartbeat interval created by registerWorker fires
HeartbeatTick(c) ==
  /\ Quiescent
  /\ c \in timers
  /\ hbDue[c] <= clock
  /\ LET w == connWid[c]
     IN Commit(IF ~HasWorker(workers, w) THEN Cur
               ELSE IF Overdue(lastHeartbeat[GetWorker(workers, w).ws], clock)
                    THEN Emit(WsClose(Cur, GetWorker(workers, w).ws, CLOSE_GOING_AWAY),
                              Out("heartbeat_timeout", GetWorker(workers, w).ws, NoExec, 0, ""))
                    ELSE send(Cur, w, Frame("heartbeat", w, NoExec)).s)
  /\ hbDue' = [hbDue EXCEPT ![c] = @ + HEARTBEAT_INTERVAL_MS]
  /\ UNCHANGED <<connWid, nextId, execInfo, eventVars, triggers, now, call, connTok, oauthVars, written,
                 clock, lastHeartbeat, helloDue, stopped>>

\* ws 'close': clearTimeout(connectionTimeout), then unregisterWorker
TimedCloseEvent(c) ==
  /\ Quiescent
  /\ connState[c] = "closing"
  /\ LET s0 == [Cur EXCEPT !.connState[c] = "closed", !.chan[c] = <<>>]
     IN Commit(IF connWid[c] # NoWorker THEN unregisterWorker(s0, connWid[c]) ELSE s0)
  /\ helloDue' = clearTimeout(helloDue, c)
  /\ UNCHANGED <<connWid, nextId, execInfo, eventVars, triggers, now, call, connTok, oauthVars, written,
                 clock, lastHeartbeat, hbDue, stopped>>

\* time passes; a timer that is due fires before the clock moves on
TimerDue(c) ==
  \/ c \in timers /\ hbDue[c] <= clock
  \/ helloDue[c] # Undefined /\ helloDue[c] <= clock
ClockAdvance ==
  /\ Quiescent
  /\ clock < MaxTicks * HEARTBEAT_INTERVAL_MS
  /\ \A c \in Conns : ~TimerDue(c)
  /\ clock' = clock + HEARTBEAT_INTERVAL_MS
  /\ out' = <<>>
  /\ UNCHANGED <<poolVars, connWid, dispVars, tokenVars, nextId, execInfo, eventVars,
                 triggers, now, call, connTok, oauthVars, written, lastHeartbeat, hbDue, helloDue, stopped>>

\* the scenario of the timed pool: every worker has its own id, and one
\* request is submitted
OwnId(c) == IF c = 1 THEN "w1" ELSE "w2"
SubmitOne ==
  /\ nextId = 1
  /\ Submit

NextHeartbeat ==
  \/ \E c \in Conns : TimedConnect(c, OwnId(c))
  \/ \E c \in Conns : TimedRecvHello(c)
  \/ \E c \in Conns : MessageBeforeHello(c)
  \/ \E c \in Conns : HelloTimeout(c)
  \/ \E c \in Conns : ~stopped[c] /\ RecvReady(c)
  \/ \E c \in Conns, st \in {"completed", "failed", "cancelled"} : ~stopped[c] /\ RecvComplete(c, st)
  \/ \E c \in Conns : TimedRecvHeartbeat(c)
  \/ \E c \in Conns : WorkerStops(c)
  \/ \E c \in Conns : HeartbeatTick(c)
  \/ \E c \in Conns : TransportClosing(c)
  \/ \E c \in Conns : TimedCloseEvent(c)
  \/ ClockAdvance
  \/ SubmitOne
  \/ SetToken

SpecHeartbeat == Init /\ [][NextHeartbeat]_vars

\* timers that are due fire, time passes, and a closing handshake ends (the
\* peer answers it or ws gives up waiting and destroys the socket)
FairHeartbeat ==
  /\ WF_vars(ClockAdvance)
  /\ \A c \in Conns : WF_vars(HeartbeatTick(c))
  /\ \A c \in Conns : WF_vars(HelloTimeout(c))
  /\ \A c \in Conns : WF_vars(TimedCloseEvent(c))
\* the same pool serving its first transport only
NextOneWorker ==
  \/ TimedConnect(1, OwnId(1))
  \/ TimedRecvHello(1)
  \/ MessageBeforeHello(1)
  \/ HelloTimeout(1)
  \/ ~stopped[1] /\ RecvReady(1)
  \/ \E st \in {"completed", "failed", "cancelled"} : ~stopped[1] /\ RecvComplete(1, st)
  \/ TimedRecvHeartbeat(1)
  \/ WorkerStops(1)
  \/ HeartbeatTick(1)
  \/ TransportClosing(1)
  \/ TimedCloseEvent(1)
  \/ ClockAdvance
  \/ SubmitOne
  \/ SetToken
SpecHeartbeatLive == Init /\ [][NextOneWorker]_vars /\ FairHeartbeat

\* ---- the Dispatcher's output listeners, with workers that write output
\* while they run an execution

Chunks == {"a", "b"}

\* ws 'message' with a stdout or stderr frame: the worker on transport c
\* writes a chunk for the execution whose complete frame it has not sent yet
RecvOutput(c, t, chunk) ==
  /\ Quiescent
  /\ connState[c] = "open"
  /\ connWid[c] # NoWorker
  /\ Len(chan[c]) > 0
  /\ Head(chan[c]).type = "complete"
  /\ LET e == Head(chan[c]).id
     IN /\ written[e] < MaxChunks
        /\ written' = [written EXCEPT ![e] = @ + 1]
        /\ Commit(IF HasWorker(workers, connWid[c])
                  THEN OnOutput(Emit(Cur, Out(t, c, e, 0, chunk)), e, t, chunk)
                  ELSE Cur)
  /\ UNCHANGED <<connWid, nextId, execInfo, eventVars, triggers, now, call, connTok, oauthVars, timeVars>>

NextOutput ==
  \/ \E c \in Conns : Connect(c, OwnId(c))
  \/ \E c \in Conns : RecvHello(c)
  \/ \E c \in Conns : RecvReady(c)
  \/ \E c \in Conns : RecvComplete(c, "completed")
  \/ \E c \in Conns, t \in {"stdout", "stderr"}, chunk \in Chunks : RecvOutput(c, t, chunk)
  \/ \E c \in Conns : TransportClosing(c)
  \/ \E c \in Conns : CloseEvent(c)
  \/ \E e \in ExecIds : Reap(e)
  \/ Submit
  \/ SetToken

SpecOutput == Init /\ [][NextOutput]_vars

\* ---- actions of the OAuthManager

oauthRest ==
  <<poolVars, connWid, dispVars, tokenVars, nextId, execInfo, eventVars, triggers, now, call,
    connTok, written, lastHeartbeat, hbDue, helloDue, stopped>>

\* exchangeCode with a successful token response
ExchangeCode(exp, scope) ==
  /\ issued < MaxIssued
  /\ issued' = issued + 1
  /\ tokens' = [accessToken |-> <<"at", issued + 1>>, refreshToken |-> <<"rt", issued + 1>>,
                expiresAt |-> clock + exp * 1000,
                scopes |-> IF scope THEN <<"scope", issued + 1>> ELSE DEFAULT_SCOPES]
  /\ out' = <<>>
  /\ UNCHANGED <<calls, clock, oauthRest>>

\* clearTokens
ClearTokens ==
  /\ tokens # NoTokens
  /\ tokens' = NoTokens
  /\ out' = <<>>
  /\ UNCHANGED <<calls, issued, clock, oauthRest>>

\* getValidAccessToken up to its return or to the await of fetch in
\* refreshAccessToken
GetValidAccessToken(k) ==
  /\ calls[k].pc = "idle"
  /\ calls' = [calls EXCEPT ![k] =
                 IF tokens = NoTokens THEN [IdleCall EXCEPT !.pc = "done"]
                 ELSE IF NeedsRefresh(clock, tokens)
                 THEN [IdleCall EXCEPT !.pc = "fetch", !.sent = tokens.refreshToken]
                 ELSE [IdleCall EXCEPT !.pc = "done", !.result = tokens.accessToken]]
  /\ out' = <<>>
  /\ UNCHANGED <<tokens, issued, clock, oauthRest>>

\* the fetch of refreshAccessToken settles: a response that is not ok or a
\* rejected request (ok = FALSE), or a token response; then the rest of
\* refreshAccessToken and of getValidAccessToken. With this.tokens cleared
\* meanwhile and no scope in the response, this.tokens.scopes throws and the
\* catch returns null.
RefreshSettles(k, ok, exp, scope) ==
  /\ calls[k].pc = "fetch"
  /\ ok => issued < MaxIssued
  /\ LET resp == IF ok THEN Response(TRUE, issued + 1, exp, scope) ELSE NoResponse
         throws == tokens = NoTokens /\ ~scope
     IN /\ issued' = IF ok THEN issued + 1 ELSE issued
        /\ tokens' = IF ok /\ ~throws THEN Refreshed(tokens, resp, clock) ELSE tokens
        /\ calls' = [calls EXCEPT ![k] =
                       [pc |-> "done", sent |-> Null, resp |-> resp,
                        result |-> IF ok /\ ~throws THEN tokens'.accessToken ELSE Null]]
  /\ out' = <<>>
  /\ UNCHANGED <<clock, oauthRest>>

\* the caller has taken the result
CallReturns(k) ==
  /\ calls[k].pc = "done"
  /\ calls' = [calls EXCEPT ![k] = IdleCall]
  /\ out' = <<>>
  /\ UNCHANGED <<tokens, issued, clock, oauthRest>>

\* time passes
OAuthClock ==
  /\ clock + ClockStep <= MaxClock
  /\ clock' = clock + ClockStep
  /\ out' = <<>>
  /\ UNCHANGED <<tokens, calls, issued, oauthRest>>

NextOAuth ==
  \/ \E exp \in ExpiresIn, scope \in BOOLEAN : ExchangeCode(exp, scope)
  \/ ClearTokens
  \/ \E k \in CallIds : GetValidAccessToken(k)
  \/ \E k \in CallIds, ok \in BOOLEAN, exp \in ExpiresIn, scope \in BOOLEAN :
        RefreshSettles(k, ok, exp, scope)
  \/ \E k \in CallIds : CallReturns(k)
  \/ OAuthClock

SpecOAuth == Init /\ [][NextOAuth]_vars

\* ---- the Dispatcher and the Worker Pool with what the runtime guarantees:
\* a timeout that was set fires, a continuation of a settled await runs, a
\* closing handshake ends

NextLive ==
  \/ \E c \in Conns, w \in WorkerIds : Connect(c, w)
  \/ \E c \in Conns : RecvHello(c)
  \/ \E c \in Conns : RecvReady(c)
  \/ \E c \in Conns, st \in {"completed", "failed"} : RecvComplete(c, st)
  \/ \E c \in Conns : TransportClosing(c)
  \/ \E c \in Conns : HeartbeatTimeout(c)
  \/ \E c \in Conns : CloseEvent(c)
  \/ SubmitOne
  \/ SetToken
  \/ \E e \in ExecIds : Reap(e)

FairLive ==
  /\ \A e \in ExecIds : WF_vars(Reap(e))
  /\ \A c \in Conns : WF_vars(CloseEvent(c))

SpecLive == Init /\ [][NextLive]_vars /\ FairLive

\* ---- the Dispatcher when a store call of dispatchToWorker throws

\* Dispatcher.submit for a call in which db.getPersona throws inside
\* dispatchToWorker: the row is inserted and the request pushed, processQueue
\* shifts the head of the queue, the token is found, and the throw leaves
\* dispatchToWorker and processQueue (an unhandled rejection) before anything
\* is put into the active table or back into the queue
submitThrows(s, e) ==
  LET s1 == [s EXCEPT !.dbExec[e] = IF @ = "none" THEN "queued" ELSE @,
                      !.dbCols[e] = IF s.dbExec[e] = "none" THEN NewRow ELSE @,
                      !.queue = Append(@, e)]
  IN Emit([s1 EXCEPT !.queue = Tail(@)], Out("rejection", NoConn, Head(s1.queue), 0, ""))

\* POST /api/execute while the store fails; the throw is reached only when
\* there is an idle worker and a token
SubmitThrows ==
  /\ Quiescent
  /\ nextId <= MaxReq
  /\ oauth = "none"
  /\ stored
  /\ getIdleWorker(workers) # NoWorker
  /\ Commit(submitThrows(Cur, nextId))
  /\ nextId' = nextId + 1
  /\ execInfo' = [execInfo EXCEPT ![nextId] = [persona |-> "manual", src |-> "direct", eventId |-> 0, subscriptionId |-> 0]]
  /\ UNCHANGED <<connWid, eventVars, sideVars>>

NextDispatch ==
  \/ \E c \in Conns : Connect(c, OwnId(c))
  \/ \E c \in Conns : RecvHello(c)
  \/ \E c \in Conns : RecvReady(c)
  \/ \E c \in Conns, st \in {"completed", "failed"} : RecvComplete(c, st)
  \/ \E c \in Conns : TransportClosing(c)
  \/ \E c \in Conns : CloseEvent(c)
  \/ Submit
  \/ SubmitThrows
  \/ SetToken
  \/ \E e \in ExecIds : Reap(e)

SpecDispatch == Init /\ [][NextDispatch]_vars

\* ---- properties

\* C1: in every reachable state of the Worker Pool every registered session
\* is 'executing' exactly when its currentExecutionId is set (and is 'idle'
\* otherwise), also after an assign whose send failed.
C1_ExecutingIffCurrent ==
  \A i \in 1 .. Len(workers) :
    /\ workers[i].status \in {"idle", "executing"}
    /\ workers[i].status = "executing" <=> workers[i].cur # NoExec

\* a session left 'executing' by an assign whose send failed: the request is
\* back in the queue and the session's transport is no longer open
C1_Witness ==
  \E i \in 1 .. Len(workers) :
    /\ workers[i].status = "executing"
    /\ connState[workers[i].ws] # "open"
    /\ \E k \in 1 .. Len(queue) : queue[k] = workers[i].cur
    /\ \E k \in 1 .. Len(out) : out[k].k = "assign_failed"

\* the sessions whose currentExecutionId is e
Owners(e) == {i \in 1 .. Len(workers) : workers[i].cur = e}

\* C2: every execution in the active table with status 'running' is the
\* currentExecutionId of exactly one registered worker session.
C2_RunningHasOneOwner ==
  \A e \in ExecIds : active[e].status = "running" => Cardinality(Owners(e)) = 1

\* C3: the keys of the active table are exactly the currentExecutionIds of
\* the executing workers plus the entries that reached a terminal status;
\* in particular every executing worker's currentExecutionId is a key.
C3_ActiveKeys ==
  /\ \A e \in ExecIds :
        active[e].status = "running" =>
          \E i \in 1 .. Len(workers) : workers[i].status = "executing" /\ workers[i].cur = e
  /\ \A i \in 1 .. Len(workers) :
        workers[i].status = "executing" => active[workers[i].cur].status # "none"

\* the assigns sent on a transport for which no complete frame was received
Outstanding(c) == SelectSeq(chan[c], LAMBDA m : m.type = "complete")

\* C4: a worker runs one execution at a time: no assign is sent to a session
\* that was sent an assign for which neither a complete frame nor a
\* disconnect has been received.
C4_OneAssignAtATime ==
  \A c \in Conns : Len(Outstanding(c)) <= 1

\* one transport has been accepted so far, it is open, and two requests
\* R1 = 1 and R2 = 2 have been submitted
OneWorkerTwoRequests ==
  /\ connState[1] = "open"
  /\ \A c \in Conns \ {1} : connState[c] = "unused"
  /\ nextId = 3

\* C5: with no worker connected R1 and R2 stay queued at positions 0 and 1;
\* when a worker then sends hello and ready, R1 is dispatched to it and R2
\* stays queued (queue length 1) until that worker has finished R1.
C5_Queueing ==
  [][ /\ (nextId = 3 /\ \A c \in Conns : connState[c] = "unused") => queue = <<1, 2>>
      /\ ( /\ OneWorkerTwoRequests
           /\ queue = <<1, 2>> /\ stored /\ oauth = "none"
           /\ connWid[1] = NoWorker /\ connWid'[1] # NoWorker )
         => (queue' = <<2>> /\ active'[1].status = "running")
      /\ ( /\ OneWorkerTwoRequests
           /\ queue = <<2>> /\ active[1].status = "running"
           /\ connState'[1] = "open"
           /\ \E k \in 1 .. Len(chan'[1]) : chan'[1][k] = Frame("complete", NoWorker, 1) )
         => queue' = <<2>>
    ]_vars

\* the executions of persona p submitted by the Event Processor that are running
RunningFromEvents(p) ==
  {e \in ExecIds : execInfo[e].src = "event" /\ execInfo[e].persona = p /\ dbExec[e] = "running"}

\* C6: counting only executions submitted by the Event Processor, at every
\* moment at most maxConcurrent executions of a persona are running.
C6_MaxConcurrent ==
  \A p \in Personas : Cardinality(RunningFromEvents(p)) <= maxConcurrent(p)

TerminalEventStatus == {"delivered", "partial", "failed", "skipped"}

\* C7: under Event Processor ticks an event's status only moves
\* pending -> processing -> delivered | partial | failed | skipped: a terminal
\* status is never overwritten and no event returns to pending or processing.
C7_EventStatusMonotone ==
  [][ \A i \in EvIds :
        events'[i].status # events[i].status =>
          \/ events[i].status = "none" /\ events'[i].status = "pending"
          \/ events[i].status = "pending" /\ events'[i].status = "processing"
          \/ events[i].status = "processing" /\ events'[i].status \in TerminalEventStatus
    ]_vars

\* a tick has ended after it took one event to 'failed' and another to a
\* different terminal status
C7_Witness ==
  /\ tick.pc = "idle"
  /\ \E i, j \in EvIds :
       /\ events[i].status = "failed"
       /\ events[j].status \in TerminalEventStatus \ {"failed"}

SessionsOf(ws, w) == {i \in 1 .. Len(ws) : ws[i].id = w}

\* a hello for worker id w is received on transport c in this step
HelloStep(c, w) ==
  /\ connWid[c] = NoWorker
  /\ connWid'[c] = w

\* C8: the pool holds at most one session per workerId; a hello for a
\* workerId that has a session cancels that session's heartbeat timer, closes
\* its transport with 1001 and removes it before the new session is installed
\* (idle, unless the queue gives it work at once).
C8_UniqueSession ==
  [][ /\ \A w \in WorkerIds : Cardinality(SessionsOf(workers', w)) <= 1
      /\ timers' = {workers'[i].ws : i \in 1 .. Len(workers')}
      /\ \A c \in Conns, w \in WorkerIds :
           (HelloStep(c, w) /\ HasWorker(workers, w)) =>
             LET old == GetWorker(workers, w).ws
                 new == GetWorker(workers', w)
             IN /\ old \notin timers'
                /\ connState'[old] # "open"
                /\ connState[old] = "open" =>
                     \E k, k2 \in 1 .. Len(out') :
                       /\ k < k2
                       /\ out'[k] = Out("close", old, NoExec, CLOSE_GOING_AWAY, "")
                       /\ out'[k2] = Out("ack", c, NoExec, 0, "")
                /\ new.ws = c
                /\ c \in timers'
                /\ \/ new.status = "idle" /\ new.cur = NoExec
                   \/ \E k \in 1 .. Len(out') : out'[k].k = "assign" /\ out'[k].c = c
    ]_vars

\* a duplicate hello has just evicted a session that was executing: its
\* transport was closed with 1001 and the new session was acknowledged
C8_Witness ==
  /\ \E k, k2 \in 1 .. Len(out) :
       /\ k < k2
       /\ out[k].k = "close" /\ out[k].code = CLOSE_GOING_AWAY
       /\ out[k2].k = "ack"
  /\ \E e \in ExecIds : active[e].status = "running" /\ Owners(e) = {}

\* dispatchToWorker found no token for execution e in this step
NoTokenStep(e) == \E k \in 1 .. Len(out') : out'[k] = Out("no_token", NoConn, e, 0, "")

\* no session was made 'executing' by this step
NoWorkerConsumed ==
  \A w \in WorkerIds :
    (HasWorker(workers', w) /\ GetWorker(workers', w).status = "executing") =>
      (HasWorker(workers, w) /\ GetWorker(workers, w) = GetWorker(workers', w))

\* C9: when no token is available at dispatch the request goes back to the
\* front of the queue, no assign frame is sent, no active entry is created,
\* the execution record is left 'queued' and the selected worker stays idle.
C9_NoToken ==
  [][ \A e \in ExecIds :
        NoTokenStep(e) =>
          /\ Len(queue') > 0 /\ Head(queue') = e
          /\ \A k \in 1 .. Len(out') : out'[k].k # "assign"
          /\ active'[e] = NoActive
          /\ dbExec'[e] = "queued"
          /\ NoWorkerConsumed
    ]_vars

\* pool.assign failed inside dispatchToWorker for execution e in this step
AssignFailedStep(e) == \E k \in 1 .. Len(out') : out'[k] = Out("assign_failed", NoConn, e, 0, "")

\* C10: when pool.assign fails inside dispatchToWorker (worker missing, not
\* idle, or transport not open) active[e] is removed, the execution record is
\* back to 'queued' and the request is at the front of the queue, ahead of
\* every other queued request.
C10_AssignFailed ==
  [][ \A e \in ExecIds :
        AssignFailedStep(e) =>
          /\ active'[e] = NoActive
          /\ dbExec'[e] = "queued"
          /\ Len(queue') > 0 /\ Head(queue') = e
          /\ \A k \in 2 .. Len(queue') : queue'[k] # e
          /\ \A k \in 1 .. Len(out') : out'[k].k # "assign"
    ]_vars

\* an assign has just failed on a transport that was closing, and the
\* request went back in front of another queued request
C10_Witness ==
  /\ Len(queue) = 2
  /\ \E k \in 1 .. Len(out) : out[k] = Out("assign_failed", NoConn, Head(queue), 0, "")
  /\ \E i \in 1 .. Len(workers) :
       /\ workers[i].cur = Head(queue)
       /\ connState[workers[i].ws] = "closing"
\* POST /api/executions/e/cancel is answered in this step
CancelStep(e) == \E k \in 1 .. Len(out') : out'[k].k = "http_cancel" /\ out'[k].id = e

\* C11: cancelExecution(e) returns false and does nothing when e is unknown,
\* still queued or already terminal; when active[e] is 'running' it sends
\* cancel{e} to the session registered for that entry's worker and returns
\* the send result; in every case the queue, the active table and all worker
\* states are unchanged.
C11_Cancel ==
  [][ \A e \in ExecIds :
        CancelStep(e) =>
          /\ queue' = queue /\ active' = active /\ workers' = workers
          /\ dbExec' = dbExec /\ connState' = connState /\ pending' = pending
          /\ LET w == active[e].workerId
                 sent == /\ active[e].status = "running"
                         /\ HasWorker(workers, w)
                         /\ connState[GetWorker(workers, w).ws] = "open"
             IN IF sent
                THEN out' = << Out("cancel", GetWorker(workers, w).ws, e, 0, ""),
                               Out("http_cancel", NoConn, e, HTTP_OK, "") >>
                ELSE /\ out' = << Out("http_cancel", NoConn, e, HTTP_NOT_FOUND, "") >>
                     /\ chan' = chan
          /\ (e >= nextId \/ (\E k \in 1 .. Len(queue) : queue[k] = e)
                \/ active[e].status \in {"none", "completed", "failed", "cancelled"})
               => out' = << Out("http_cancel", NoConn, e, HTTP_NOT_FOUND, "") >>
    ]_vars

\* a cancel frame has just been sent for a running execution, whose entry
\* is still 'running'
C11_Witness ==
  /\ \E e \in ExecIds :
       /\ active[e].status = "running"
       /\ \E k \in 1 .. Len(out) : out[k].k = "cancel" /\ out[k].id = e
       /\ \E k \in 1 .. Len(out) : out[k] = Out("http_cancel", NoConn, e, HTTP_OK, "")
\* the close event of transport c is handled in this step while the session
\* registered for its worker id is executing e
DisconnectStep(c, e) ==
  /\ connState[c] = "closing" /\ connState'[c] = "closed"
  /\ connWid[c] # NoWorker
  /\ HasWorker(workers, connWid[c])
  /\ GetWorker(workers, connWid[c]).status = "executing"
  /\ GetWorker(workers, connWid[c]).cur = e

Lifecycles(o, e) == SelectSeq(o, LAMBDA m : m.k = "lifecycle" /\ m.id = e)

\* C12: when a worker executing R1 disconnects, its session is removed and
\* its heartbeat timer stopped, active[R1].status becomes 'failed', the record
\* gets status 'failed' and errorMessage "Worker disconnected", one lifecycle
\* message with status failed and durationMs 0 is produced, and R1 is neither
\* queued nor dispatched again.
C12_Disconnect ==
  [][ \A c \in Conns, e \in ExecIds :
        DisconnectStep(c, e) =>
          /\ ~HasWorker(workers', connWid[c])
          /\ GetWorker(workers, connWid[c]).ws \notin timers'
          /\ active'[e].status = "failed"
          /\ dbExec'[e] = "failed"
          /\ dbCols'[e].errorMessage = "Worker disconnected"
          /\ Lifecycles(out', e) = << Out("lifecycle", NoConn, e, 0, "failed") >>
          /\ \A k \in 1 .. Len(queue') : queue'[k] # e
          /\ \A k \in 1 .. Len(pending') : pending'[k].id # e
          /\ \A k \in 1 .. Len(out') : out'[k].k # "assign"
    ]_vars
\* an assign frame for execution e is sent in this step
AssignStep(e) == \E k \in 1 .. Len(out') : out'[k].k = "assign" /\ out'[k].id = e

\* execution f is waiting to be dispatched: queued, or taken from the queue
\* by a dispatchToWorker that is suspended on the token
Waiting(q, p, f) ==
  \/ \E k \in 1 .. Len(q) : q[k] = f
  \/ \E k \in 1 .. Len(p) : p[k].id = f

\* C13: dispatch is FIFO: whenever an assign frame is sent for a request,
\* no request submitted before it (a smaller id) is still waiting to be
\* assigned.
C13_Fifo ==
  [][ \A e \in ExecIds :
        AssignStep(e) => \A f \in 1 .. e - 1 : ~Waiting(queue', pending', f)
    ]_vars
\* the subscription qualifies for the event: enabled, same event type, owned
\* by the target persona when the event names one, and passing the source
\* filter when it has one
Qualifies(event, sub) ==
  /\ sub.enabled
  /\ sub.eventType = event.eventType
  /\ event.targetPersonaId \notin {NoPersona, ""} => sub.personaId = event.targetPersonaId
  /\ ~Falsy(sub.sourceFilter) => sourceFilterMatches(sub.sourceFilter, event.sourceId)

\* the positions of the qualifying subscriptions, and the k-th of them
QualifyingAt(event, subs) == {i \in 1 .. Len(subs) : Qualifies(event, subs[i])}
Kth(S, k) == CHOOSE i \in S : Cardinality({j \in S : j < i}) = k - 1

\* subs with subscription d inserted after position pos
InsertAt(subs, pos, d) == SubSeq(subs, 1, pos) \o <<d>> \o SubSeq(subs, pos + 1, Len(subs))

\* C14: matchEvent(event, subs) returns exactly one match per qualifying
\* subscription, in subscription order; adding a disabled subscription
\* anywhere never changes the result; an event with a target persona matches
\* only that persona's subscriptions.
C14_MatchEvent ==
  (call.fn = "matchEvent" /\ call.done) =>
    LET Q == QualifyingAt(call.event, call.subs)
    IN /\ Len(call.result) = Cardinality(Q)
       /\ \A k \in 1 .. Len(call.result) :
            call.result[k] = EventMatch(call.event, call.subs[Kth(Q, k)])
       /\ \A pos \in 0 .. Len(call.subs), d \in {x \in SubKinds : ~x.enabled} :
            matchEvent(call.event, InsertAt(call.subs, pos, d)) = call.result
       /\ call.event.targetPersonaId \in Personas =>
            \A k \in 1 .. Len(call.result) : call.result[k].personaId = call.event.targetPersonaId

\* matchEvent has returned the second of two subscriptions only, for an
\* event that names a target persona and has a source id
C14_Witness ==
  /\ call.fn = "matchEvent" /\ call.done
  /\ Len(call.subs) = 2 /\ Len(call.result) = 1
  /\ call.result[1].subscriptionId = 2
  /\ call.event.targetPersonaId \in Personas
  /\ call.subs[1].enabled /\ call.subs[1].eventType = call.event.eventType
  /\ ~Falsy(call.subs[2].sourceFilter)

\* the filter ends with '*' and s starts with the filter minus that character
StarMatch(f, s) ==
  /\ Len(f) > 0 /\ f[Len(f)] = "*"
  /\ Len(s) >= Len(f) - 1
  /\ \A i \in 1 .. Len(f) - 1 : s[i] = f[i]

\* C15: sourceFilterMatches(f, s) is true exactly when s is not null and
\* either s = f or f ends with '*' and s starts with f minus that last
\* character, for every filter and source id, the empty source id included.
C15_SourceFilter ==
  (call.fn = "sourceFilterMatches" /\ call.done) =>
    (call.result <=> (call.sourceId # Null /\ (call.sourceId = call.filter \/ StarMatch(call.filter, call.sourceId))))
\* triggerSchedulerTick runs in this step
TriggerTickStep == \E k \in 1 .. Len(out') : out'[k].k = "trigger_tick"

\* the trigger is enabled and the instant of its nextTriggerAt has come
IsDue(T, t) == T.enabled /\ T.nextTriggerAt # NullTime /\ Instant(T.nextTriggerAt) <= t

\* the events published in this step with the trigger as their source
NewEventsOf(T) ==
  {i \in EvIds : events[i].status = "none" /\ events'[i].status # "none"
                   /\ events'[i].kind.sourceId = T.id}

\* C16: in one Trigger Scheduler tick every trigger that is enabled, due and
\* not of type polling causes exactly one new pending event {config.event_type
\* or 'trigger_fired', 'trigger', trigger.id, trigger.personaId} and gets
\* lastTriggeredAt = now and a recomputed nextTriggerAt ('every N s' gives
\* now + N); a trigger that is not due does not fire.
C16_TriggerTick ==
  [][ TriggerTickStep =>
        \A i \in 1 .. Len(triggers) :
          LET T == triggers[i]
          IN IF IsDue(T, now) /\ T.triggerType # "polling"
             THEN /\ Cardinality(NewEventsOf(T)) = 1
                  /\ \A e \in NewEventsOf(T) :
                       events'[e] = [kind |-> Event(TriggerEventType(T), "trigger", T.id, T.personaId),
                                     status |-> "pending", errorMessage |-> NoMessage]
                  /\ triggers'[i].lastTriggeredAt = toISOString(now)
                  /\ (T.triggerType = "schedule" /\ T.config.valid /\ T.config.cron.kind = "every")
                       => Instant(triggers'[i].nextTriggerAt) = now + T.config.cron.n
                  /\ ~IsDue(triggers'[i], now)
             ELSE /\ NewEventsOf(T) = {}
                  /\ triggers'[i] = T
    ]_vars

\* the matches of event i and the test that makes one of them fail
MatchesOf(i) ==
  matchEvent(events[i].kind, getSubscriptionsByEventType(events[i].kind.eventType))
MatchFails(p) ==
  p \notin Personas \/ countRunningExecutions(dbExec, execInfo, p) >= maxConcurrent(p)

CompleteStep(c, e, st) ==
  /\ connState[c] = "open"
  /\ connWid[c] # NoWorker
  /\ HasWorker(workers, connWid[c])
  /\ GetWorker(workers, connWid[c]) = Entry(connWid[c], c, "executing", e)
  /\ Len(chan[c]) > 0
  /\ Head(chan[c]) = Frame("complete", NoWorker, e)
  /\ Len(chan'[c]) >= Len(chan[c]) - 1
  /\ SubSeq(chan'[c], 1, Len(chan[c]) - 1) = Tail(chan[c])
  /\ \E k \in 1 .. Len(out') :
        out'[k] = Out("lifecycle", NoConn, e, ExecComplete(e, st).durationMs, st)

Mapped(st) == IF st \in {"completed", "cancelled"} THEN st ELSE "failed"

\* C18: on a complete frame for execution E from the worker running it, the
\* worker becomes idle with currentExecutionId cleared; active[E] takes the
\* frame's status, exitCode, durationMs, sessionId and totalCostUsd; the
\* record is persisted with the status mapped to completed / cancelled /
\* failed; one lifecycle message is produced; and processQueue then runs, so
\* the head of the queue is paired with the freed worker (the assign frame
\* goes out in this step, or the dispatch is waiting for the token or has
\* found none).
C18_Complete ==
  [][ \A c \in Conns, e \in ExecIds, st \in {"completed", "failed", "cancelled"} :
        CompleteStep(c, e, st) =>
          LET w == connWid[c]
              msg == ExecComplete(e, st)
              head == Head(queue)
          IN /\ HasWorker(workers', w)
             /\ active'[e] = [workerId |-> w, status |-> msg.status, exitCode |-> msg.exitCode,
                              durationMs |-> msg.durationMs, sessionId |-> msg.sessionId,
                              totalCostUsd |-> msg.totalCostUsd]
             /\ dbExec'[e] = Mapped(st)
             /\ dbCols'[e].durationMs = msg.durationMs
             /\ dbCols'[e].claudeSessionId = msg.sessionId
             /\ Lifecycles(out', e) = << Out("lifecycle", NoConn, e, msg.durationMs, msg.status) >>
             /\ IF Len(queue) = 0
                THEN GetWorker(workers', w) = Entry(w, c, "idle", NoExec)
                ELSE \/ /\ GetWorker(workers', w) = Entry(w, c, "executing", head)
                        /\ \E k \in 1 .. Len(out') : out'[k] = Out("assign", c, head, 0, "")
                     \/ /\ GetWorker(workers', w) = Entry(w, c, "idle", NoExec)
                        /\ \/ \E k \in 1 .. Len(pending') : pending'[k].w = w /\ pending'[k].id = head
                           \/ \E k \in 1 .. Len(out') : out'[k] = Out("no_token", NoConn, head, 0, "")
    ]_vars

\* C20: when pool.assign returns false the worker's state is rolled back:
\* once the Dispatcher has re-queued the request, no registered worker is in
\* state 'executing' with currentExecutionId equal to the re-queued id.
C20_AssignRollback ==
  [][ \A e \in ExecIds :
        AssignFailedStep(e) =>
          /\ \E k \in 1 .. Len(queue') : queue'[k] = e
          /\ ~\E i \in 1 .. Len(workers') :
                workers'[i].status = "executing" /\ workers'[i].cur = e
    ]_vars

\* the upgrade request of transport c carries no token or a wrong one
BadToken(c) == Falsy(connTok[c]) \/ connTok[c] # WORKER_TOKEN

\* C19: a connection whose query string has no token, or a token different
\* from the configured workerToken, is closed with code 1008 before any frame
\* is processed: it is never open to frames, no session is ever registered
\* for it, and none of its messages produces a notification or a state
\* change.
C19_Auth ==
  [][ \A c \in Conns :
        BadToken(c) =>
          /\ (connState[c] = "unused" /\ connState'[c] # "unused") =>
                /\ out' = << Out("close", c, NoExec, CLOSE_POLICY, "") >>
                /\ connState'[c] \notin {"open", "closed"}
          /\ connState'[c] # "open"
          /\ connWid'[c] = NoWorker
          /\ c \notin timers'
          /\ \A i \in 1 .. Len(workers') : workers'[i].ws # c
          /\ (connState[c] # "unused" /\ chan'[c] # chan[c]) =>
                /\ out' = <<>>
                /\ UNCHANGED <<workers, timers, connWid, dispVars, tokenVars, nextId, execInfo,
                               eventVars>>
                /\ \A d \in Conns \ {c} : connState'[d] = connState[d] /\ chan'[d] = chan[d]
    ]_vars

\* a client with a wrong token had its connection closed and the frame it
\* sent dropped, while a worker with the configured token is registered
C19_Witness ==
  \E c \in Conns :
    /\ connTok[c] # WORKER_TOKEN /\ ~Falsy(connTok[c])
    /\ connState[c] = "rejected"
    /\ chan[c] = << Frame("ready", NoWorker, NoExec) >>
    /\ Len(workers) = 1

\* a frame other than hello is received on transport c, which has sent no
\* hello yet
BeforeHelloStep(c) ==
  /\ connState[c] = "open" /\ connWid[c] = NoWorker
  /\ Len(chan[c]) > 0 /\ Head(chan[c]).type # "hello"
  /\ chan'[c] = Tail(chan[c])

\* the hello timeout of transport c fires in this step
HelloTimeoutStep(c) ==
  /\ helloDue[c] # Undefined /\ helloDue[c] <= clock
  /\ helloDue'[c] = Undefined
  /\ connState[c] = "open" /\ connState'[c] # "closed"
  /\ connWid'[c] = connWid[c]

\* C21: on an authenticated connection every message received before a
\* hello is discarded without a state change or a notification; a transport
\* that has sent no hello when the hello timeout (10 s after the connection)
\* fires is closed with code 1008 and stays unregistered until then; a hello
\* cancels the timeout, so no registered transport is closed with 1008.
C21_HelloTimeout ==
  [][ \A c \in Conns :
        /\ BeforeHelloStep(c) =>
              /\ out' = << Out("before_hello", c, NoExec, 0, Head(chan[c]).type) >>
              /\ UNCHANGED <<workers, timers, connState, connWid, dispVars, tokenVars, nextId,
                             execInfo, eventVars, timeVars>>
              /\ \A d \in Conns \ {c} : chan'[d] = chan[d]
        /\ (connState[c] = "unused" /\ connState'[c] = "open") =>
              helloDue'[c] = clock + HELLO_TIMEOUT_MS
        /\ (HelloTimeoutStep(c) /\ connWid[c] = NoWorker) =>
              /\ connState'[c] = "closing"
              /\ out' = << Out("close", c, NoExec, CLOSE_POLICY, "") >>
        /\ (connState'[c] = "open" /\ connWid'[c] = NoWorker) =>
              /\ helloDue'[c] # Undefined
              /\ clock' < helloDue'[c] + HEARTBEAT_INTERVAL_MS
        /\ (connWid[c] = NoWorker /\ connWid'[c] # NoWorker) =>
              /\ helloDue'[c] = Undefined
              /\ connState'[c] = "open"
        /\ connWid[c] # NoWorker =>
              /\ helloDue'[c] = Undefined
              /\ \A k \in 1 .. Len(out') : out'[k] # Out("close", c, NoExec, CLOSE_POLICY, "")
    ]_vars

\* one transport has just been closed by its hello timeout while another,
\* whose hello arrived in time, is still registered
C21_Witness ==
  \E c, d \in Conns :
    /\ out = << Out("close", c, NoExec, CLOSE_POLICY, "") >>
    /\ connWid[c] = NoWorker /\ connState[c] = "closing" /\ chan[c] = <<>>
    /\ connWid[d] # NoWorker /\ connState[d] = "open" /\ helloDue[d] = Undefined
    /\ clock > 0

\* a frame of type t sent by the worker registered on transport c is
\* received in this step
RegisteredRecvStep(c, t) ==
  /\ connState[c] = "open" /\ connWid[c] # NoWorker
  /\ HasWorker(workers, connWid[c]) /\ GetWorker(workers, connWid[c]).ws = c
  /\ IF t = "heartbeat"
     THEN \E k \in 1 .. Len(out') : out'[k] = Out("recv_heartbeat", c, NoExec, 0, "")
     ELSE /\ Len(chan[c]) > 0 /\ Head(chan[c]).type = t
          /\ Len(chan'[c]) \in {Len(chan[c]) - 1, Len(chan[c]) + 1}
          /\ SubSeq(chan'[c], 1, Len(chan[c]) - 1) = Tail(chan[c])

\* C22: receiving any message from a registered worker (ready, complete or
\* heartbeat among them) sets that worker's lastHeartbeat to now, so that a
\* heartbeat tick never finds a worker overdue that sent a frame of any
\* type since the previous tick.
C22_AnyFrameRefreshes ==
  [][ \A c \in Conns, t \in {"ready", "complete", "heartbeat"} :
        RegisteredRecvStep(c, t) => lastHeartbeat'[c] = clock
    ]_vars

\* the heartbeat interval of transport c fires in this step
HeartbeatTickStep(c) == c \in timers /\ hbDue'[c] = hbDue[c] + HEARTBEAT_INTERVAL_MS

\* the session created on transport c is still in the pool
Registered(c) ==
  connWid[c] # NoWorker /\ \E i \in 1 .. Len(workers) : workers[i].ws = c

OutputStep(e, t, chunk) ==
  /\ written'[e] = written[e] + 1
  /\ \E c \in Conns : out'[1] = Out(t, c, e, 0, chunk)

IsPrefix(a, b) == Len(a) <= Len(b) /\ SubSeq(b, 1, Len(a)) = a

\* C24: for each execution, stdout and stderr chunks are appended to
\* active[executionId].output (stderr prefixed '[STDERR] ') and to the
\* record's output in exactly the order in which the frames were received;
\* the in-memory buffer is append-only while the entry exists.
C24_OutputOrder ==
  [][ /\ \A e \in ExecIds, t \in {"stdout", "stderr"}, chunk \in Chunks :
            OutputStep(e, t, chunk) =>
              LET line == IF t = "stderr" THEN "[STDERR] " \o chunk ELSE chunk
              IN /\ active[e].status # "none" => output'[e] = Append(output[e], line)
                 /\ active[e].status = "none" => output'[e] = output[e]
                 /\ dbExec[e] # "none" => outputData'[e] = outputData[e] \o line \o "\n"
                 /\ \A f \in ExecIds \ {e} :
                       output'[f] = output[f] /\ outputData'[f] = outputData[f]
      /\ \A e \in ExecIds :
            (active[e].status # "none" /\ active'[e].status # "none") =>
              IsPrefix(output[e], output'[e])
      /\ \A e \in ExecIds :
            outputData'[e] # outputData[e] => written'[e] = written[e] + 1
    ]_vars

\* an execution for which a stdout chunk and then a stderr chunk were
\* received, both kept in memory and in the record
C24_Witness ==
  \E e \in ExecIds :
    /\ active[e].status = "running"
    /\ output[e] = << "a", "[STDERR] b" >>
    /\ outputData[e] = "a\n[STDERR] b\n"

\* C25: a stderr frame is handled like a stdout frame apart from the
\* '[STDERR] ' prefix: the chunk is appended to the active output if the
\* entry is present, persisted to the record's output, and an EXEC_OUTPUT
\* message keyed by the execution id is emitted for it.
C25_StderrLikeStdout ==
  [][ \A e \in ExecIds, chunk \in Chunks :
        OutputStep(e, "stderr", chunk) =>
          /\ active[e].status # "none" => output'[e] = Append(output[e], "[STDERR] " \o chunk)
          /\ dbExec[e] # "none" => outputData'[e] = outputData[e] \o "[STDERR] " \o chunk \o "\n"
          /\ \E k \in 1 .. Len(out') : out'[k] = Out("output", NoConn, e, 0, chunk)
    ]_vars

TerminalStatus == {"delivered", "partial", "failed", "skipped"}

\* C27: every event that a tick moves to 'processing' eventually reaches
\* exactly one terminal status (delivered, partial, failed or skipped), also
\* when a store or matching operation throws while the event is processed;
\* a tick that threw has ended and a later tick still runs.
C27_EventuallyTerminal ==
  /\ [][ (\E k \in 1 .. Len(out) : out[k].k = "tick_failed") =>
          (tick.pc = "idle" /\ (getPendingEvents(events) # <<>> => ENABLED TickStart)) ]_vars
  /\ \A i \in EvIds :
        (events[i].status = "processing") ~> (events[i].status \in TerminalStatus)
  /\ [][ \A i \in EvIds :
            events[i].status \in TerminalStatus => events'[i].status = events[i].status ]_vars

C29_SelectedWhenDue ==
  [][ TriggerTickStep =>
        \A i \in 1 .. Len(triggers) :
          LET T == triggers[i]
          IN T.triggerType # "polling" => (NewEventsOf(T) # {} <=> IsDue(T, now))
    ]_vars

\* a step in which call k of getValidAccessToken starts, and one in which its
\* refresh settles
CallStarts(k) == calls[k].pc = "idle" /\ calls'[k].pc # "idle"
CallSettles(k) == calls[k].pc = "fetch" /\ calls'[k].pc = "done"
NewTuple(r, t) ==
  [accessToken |-> <<"at", r.n>>, refreshToken |-> <<"rt", r.n>>, expiresAt |-> t + r.expires_in * 1000]
SameTokens(tk, nt) ==
  tk.accessToken = nt.accessToken /\ tk.refreshToken = nt.refreshToken /\ tk.expiresAt = nt.expiresAt

TerminalExec == {"completed", "failed", "cancelled"}

\* C31: an entry of the active table is removed by retention only after it
\* reached a terminal status (an entry with status 'running' is never
\* removed by the retention timeout), and every entry that reached a terminal
\* status is eventually removed.
C31_Retention ==
  /\ [][ \A e \in ExecIds :
            (reap'[e] < reap[e] /\ active[e].status # "none") =>
              (active[e].status \in TerminalExec /\ active'[e].status = "none") ]_vars
  /\ [][ \A e \in ExecIds :
            (active[e].status \notin TerminalExec /\ active'[e].status \in TerminalExec) =>
              reap'[e] > 0 ]_vars
  /\ \A e \in ExecIds : (active[e].status \in TerminalExec) ~> (active[e].status = "none")

\* an execution that a worker completed has been removed from the active
\* table by its timeout, its record kept; the worker is still registered
C31_Witness ==
  \E e \in ExecIds, c \in Conns :
    /\ dbExec[e] = "completed" /\ active[e].status = "none" /\ reap[e] = 0
    /\ connState[c] = "open" /\ HasWorker(workers, connWid[c])
    /\ GetWorker(workers, connWid[c]).ws = c


\* C32: for each credential bound to the persona whose ciphertext decrypts,
\* env gets one variable per field as CONNECTOR_<NAME>_<FIELD> when the
\* plaintext parses as a flat string-valued object, and otherwise (plaintext
\* that is not JSON, or JSON that is not an object) gets the whole plaintext
\* under the base name CONNECTOR_<NAME>; so every name listed in
\* credentialHints (for a decrypted credential) has its variables in env.
C32_CredentialEnv ==
  (call.fn = "injectCredentials" /\ call.done) =>
    \A i \in 1 .. Len(call.creds) :
      LET cred == call.creds[i]
          base == call.result.credentialHints[i]
          v == JSONparse(cred.plaintext)
      IN /\ base = "CONNECTOR_" \o EnvPart(cred.name)
         /\ cred.decrypts =>
              IF v.kind = "object"
              THEN \A k \in 1 .. Len(v.entries) :
                     <<base \o "_" \o EnvPart(v.entries[k][1]), v.entries[k][2]>> \in call.result.env
              ELSE <<base, cred.plaintext>> \in call.result.env

\* the queue is not empty, its head is e, some worker is idle and a token is
\* available
CanAssign(e) ==
  /\ Len(queue) > 0 /\ Head(queue) = e
  /\ getIdleWorker(workers) # NoWorker
  /\ connState[GetWorker(workers, getIdleWorker(workers)).ws] = "open"
  /\ stored

\* C33: whenever the queue is non-empty while some worker is idle and a token
\* is available, the head request is eventually assigned (or the condition
\* ends) by the orchestrator's own steps, without a further submit or worker
\* message; in particular a request re-queued after a missing token or a
\* failed send is retried.
C33_QueueDrains ==
  \A e \in ExecIds : CanAssign(e) ~> (active[e].status # "none" \/ ~CanAssign(e))

\* the sessions of the pool: a worker id together with the transport it was registered on
Sessions(ws) == { <<ws[i].id, ws[i].ws>> : i \in 1 .. Len(ws) }

\* C34: the close event of a transport removes no session that was registered
\* on another transport: after a duplicate hello replaced session S1 of worker W
\* by session S2, the close of S1's transport leaves S2 in the pool
C34_CloseRemovesOwnSession ==
  [][\A c \in Conns :
       (connState[c] = "closing" /\ connState'[c] = "closed")
         => \A x \in Sessions(workers) : x[2] # c => x \in Sessions(workers')]_vars

\* the sessions of the pool that are executing e
Executing(ws, e) ==
  { <<ws[i].id, ws[i].ws>> : i \in { j \in 1 .. Len(ws) : ws[j].status = "executing" /\ ws[j].cur = e } }

\* C35: a step in which a session executing e leaves the pool (close, heartbeat
\* timeout, or replacement by a duplicate hello) publishes the failed lifecycle
\* message of worker-disconnected for e, and an execution that is running with
\* no session executing it is eventually no longer running
C35_LeavingSessionFailsExecution ==
  /\ [][\A e \in ExecIds :
          (\E x \in Executing(workers, e) : x \notin Sessions(workers'))
            => \E i \in 1 .. Len(out') :
                 out'[i] = Out("lifecycle", NoConn, e, 0, "failed")]_vars
  /\ \A e \in ExecIds :
       (active[e].status = "running" /\ Executing(workers, e) = {})
         ~> (active[e].status # "running")

\* the steps of the persisted status that the lifecycle allows; submit inserts
\* the row as queued and may dispatch it in the same call
RecordSteps ==
  {<<"none", "queued">>, <<"none", "running">>, <<"queued", "running">>, <<"running", "queued">>}
    \cup ({"running"} \X TerminalExec)
\* the steps of the in-memory entry; an execution without an entry is queued or forgotten
EntrySteps ==
  {<<"none", "running">>, <<"running", "none">>}
    \cup ({"running"} \X TerminalExec) \cup (TerminalExec \X {"none"})

\* C36: the persisted status and the in-memory entry of an execution move only
\* queued -> running -> completed / failed / cancelled, with running -> queued
\* the only step back; a terminal status never changes and an execution with a
\* terminal status is not assigned to a worker
C36_StatusMonotonic ==
  [][\A e \in ExecIds :
       /\ dbExec'[e] # dbExec[e] => <<dbExec[e], dbExec'[e]>> \in RecordSteps
       /\ active'[e].status # active[e].status
            => <<active[e].status, active'[e].status>> \in EntrySteps
       /\ dbExec[e] \in TerminalExec
            => \A i \in 1 .. Len(out') : ~(out'[i].k = "assign" /\ out'[i].id = e)]_vars

\* how often x occurs in a sequence
Count(q, x) == Cardinality({ i \in 1 .. Len(q) : q[i] = x })
\* the execution ids of the dispatchToWorker calls that are suspended
PendingIds == [i \in 1 .. Len(pending) |-> pending[i].id]
\* the execution has an entry in the active table, or had one and finished
InTable(e) == active[e].status # "none" \/ dbExec[e] \in TerminalExec

\* C37: every submitted request is in exactly one place: once in the queue,
\* in one suspended dispatchToWorker call, or in the active table / finished;
\* it is never lost and never in the queue and the table at once
C37_ExactlyOnePlace ==
  \A e \in ExecIds :
    e < nextId =>
      Count(queue, e) + Count(PendingIds, e) + (IF InTable(e) THEN 1 ELSE 0) = 1

\* C38: the prompt of the assign frame of an execution submitted for a match
\* whose event carries a payload has the Input Data section with that payload
C38_PayloadInPrompt ==
  (call.fn = "eventPrompt" /\ call.done /\ Truthy(inputDataOf(call.payload)))
    => \E i \in 1 .. Len(call.result) :
         /\ call.result[i].section = "Input Data"
         /\ call.result[i].body = inputDataOf(call.payload).text

\* C39: no two refresh requests that are in flight at the same time carry the
\* same refresh token
C39_OneRefreshInFlight ==
  \A j, k \in CallIds :
    (j # k /\ calls[j].pc = "fetch" /\ calls[k].pc = "fetch") => calls[j].sent # calls[k].sent

\* C40: while the tokens are cleared only exchangeCode sets them again, and a
\* call of getValidAccessToken that ends returns null, also when its refresh
\* request was in flight when clearTokens ran
C40_ClearedStaysCleared ==
  [][tokens = NoTokens =>
       /\ tokens' # NoTokens => calls' = calls
       /\ \A k \in CallIds :
            (calls[k].pc # "done" /\ calls'[k].pc = "done") => calls'[k].result = Null]_vars


====
